---- MODULE Spec2Model ----
(***************************************************************************)
(* A model of the CodeSphere graph engine: src/services/parser.ts          *)
(* (class CodeParser, the exported instance `parser`) and its callers.     *)
(*                                                                         *)
(* Representation.  A JavaScript string is a sequence of one-character     *)
(* strings, so that split, join, startsWith, endsWith, includes and        *)
(* concatenation are computed and not assumed.  A file's text is the       *)
(* sequence of its lexemes: maximal words over [A-Za-z0-9_$], single       *)
(* punctuation characters, quoted string literals, and one lexeme per      *)
(* blank (" ") and per line break ("\n").  Concatenating the lexemes       *)
(* gives the text back; every regular expression of the source is          *)
(* translated to a matcher over that sequence.  A JavaScript Map is the    *)
(* sequence of its entries in insertion order.  Objects that the code      *)
(* shares by reference (node objects, link arrays) live in a heap and are  *)
(* named by their index.  A node's size is kept in tenths (15 is 150, the  *)
(* increment 0.3 is 3).                                                    *)
(***************************************************************************)
EXTENDS Integers, Sequences, FiniteSets, TLC

(***************************************************************************)
(* Strings                                                                 *)
(***************************************************************************)
Lower == {"a","b","c","d","e","f","g","h","i","j","k","l","m","n","o","p","q","r","s","t","u","v","w","x","y","z"}

Upper == {"A","B","C","D","E","F","G","H","I","J","K","L","M","N","O","P","Q","R","S","T","U","V","W","X","Y","Z"}

Digit == {"0","1","2","3","4","5","6","7","8","9"}

\* \w of a JavaScript regular expression, and the class [a-zA-Z0-9_]
RegexWordChar == Lower \cup Upper \cup Digit \cup {"_"}

\* the class [a-zA-Z0-9_$]
IdentChar == RegexWordChar \cup {"$"}

Range(s) == {s[i] : i \in DOMAIN s}

StartsWith(s, p) == Len(s) >= Len(p) /\ SubSeq(s, 1, Len(p)) = p

EndsWith(s, p) == Len(s) >= Len(p) /\ SubSeq(s, Len(s) - Len(p) + 1, Len(s)) = p

Includes(s, p) == \E i \in 0..(Len(s) - Len(p)) : SubSeq(s, i + 1, i + Len(p)) = p

Front(s) == SubSeq(s, 1, Len(s) - 1)

Last(s) == s[Len(s)]

RECURSIVE SplitRec(_, _, _, _, _)
SplitRec(s, i, seps, runs, parts) ==
  IF i > Len(s) THEN parts
  ELSE IF s[i] \in seps
       THEN IF runs /\ i > 1 /\ s[i - 1] \in seps
            THEN SplitRec(s, i + 1, seps, runs, parts)
            ELSE SplitRec(s, i + 1, seps, runs, Append(parts, <<>>))
       ELSE SplitRec(s, i + 1, seps, runs, [parts EXCEPT ![Len(parts)] = Append(@, s[i])])

\* String.prototype.split on one separator character out of seps
Split(s, seps) == SplitRec(s, 1, seps, FALSE, << <<>> >>)

\* String.prototype.split on the regular expression /[seps]+/
SplitRuns(s, seps) == SplitRec(s, 1, seps, TRUE, << <<>> >>)

RECURSIVE Join(_, _)
\* Array.prototype.join
Join(parts, sep) ==
  IF Len(parts) = 0 THEN <<>>
  ELSE IF Len(parts) = 1 THEN parts[1]
  ELSE parts[1] \o sep \o Join(Tail(parts), sep)

RECURSIVE ConcatRange(_, _, _)
ConcatRange(parts, lo, hi) ==
  IF lo > hi THEN <<>>
  ELSE IF lo = hi THEN parts[lo]
  ELSE ConcatRange(parts, lo, (lo + hi) \div 2) \o ConcatRange(parts, ((lo + hi) \div 2) + 1, hi)

\* the strings of parts put one after the other
Concat(parts) == ConcatRange(parts, 1, Len(parts))

\* the least element of a non-empty set of numbers
Min(S) == CHOOSE x \in S : \A y \in S : x <= y

(***************************************************************************)
(* Map: the entries [key, val] in insertion order                          *)
(***************************************************************************)
MapHas(m, k) == \E i \in DOMAIN m : m[i].key = k

MapIndex(m, k) == CHOOSE i \in DOMAIN m : m[i].key = k

MapGet(m, k) == m[MapIndex(m, k)].val

\* a seeded fault: a list of entries where the code has a Map, every set appends
MapSetAppends(m, k, v) == Append(m, [key |-> k, val |-> v])

\* an existing key keeps its place and takes the new value
MapSet(m, k, v) ==
  IF MapHas(m, k) THEN [m EXCEPT ![MapIndex(m, k)].val = v]
  ELSE Append(m, [key |-> k, val |-> v])

MapKeys(m) == [i \in DOMAIN m |-> m[i].key]

MapValues(m) == [i \in DOMAIN m |-> m[i].val]

(***************************************************************************)
(* Paths and ids (parser.ts 16-53, 112-120)                                *)
(***************************************************************************)
RECURSIVE NormStack(_, _, _)
NormStack(parts, i, stack) ==
  IF i > Len(parts) THEN stack
  ELSE IF parts[i] = <<>> \/ parts[i] = <<".">> THEN NormStack(parts, i + 1, stack)
  ELSE IF parts[i] = <<".", ".">>
       THEN NormStack(parts, i + 1, IF Len(stack) = 0 THEN stack ELSE Front(stack))
  ELSE NormStack(parts, i + 1, Append(stack, parts[i]))

normalizePath(rawPath) == Join(NormStack(SplitRuns(rawPath, {"/", "\\"}), 1, <<>>), <<"/">>)

\* a seeded fault: the specifier is kept as written
resolveImportPathAsWritten(filePath, importPath) == importPath

resolveImportPath(filePath, importPath) ==
  IF ~StartsWith(importPath, <<".">>) THEN importPath
  ELSE LET baseDir == Join(Front(Split(filePath, {"/"})), <<"/">>)
       IN normalizePath(baseDir \o <<"/">> \o importPath)

generateId(file, name) == file \o <<":">> \o name

(***************************************************************************)
(* Lexemes and the helpers of the pattern matchers                         *)
(***************************************************************************)
SP == <<" ">>

NL == <<"\n">>

IsWs(t) == t = SP \/ t = NL

IsIdent(t) == Len(t) > 0 /\ Range(t) \subseteq IdentChar

IsWord(t) == Len(t) > 0 /\ Range(t) \subseteq RegexWordChar

kwExport == <<"e","x","p","o","r","t">>

kwFunction == <<"f","u","n","c","t","i","o","n">>

kwConst == <<"c","o","n","s","t">>

kwLet == <<"l","e","t">>

kwVar == <<"v","a","r">>

kwAsync == <<"a","s","y","n","c">>

kwDef == <<"d","e","f">>

kwFn == <<"f","n">>

kwPub == <<"p","u","b">>

kwClass == <<"c","l","a","s","s">>

kwExtends == <<"e","x","t","e","n","d","s">>

kwInterface == <<"i","n","t","e","r","f","a","c","e">>

kwType == <<"t","y","p","e">>

kwImport == <<"i","m","p","o","r","t">>

kwFrom == <<"f","r","o","m">>

kwAs == <<"a","s">>

kwPrivate == <<"p","r","i","v","a","t","e">>

kwProtected == <<"p","r","o","t","e","c","t","e","d">>

kwPublic == <<"p","u","b","l","i","c">>

kwStatic == <<"s","t","a","t","i","c">>

\* the lexeme at index i, the empty string outside the text
Tok(c, i) == IF i \in DOMAIN c THEN c[i] ELSE <<>>

RECURSIVE SkipWs(_, _)
\* \s* from index i: the index of the first lexeme that is no white space
SkipWs(c, i) == IF i \in DOMAIN c /\ IsWs(c[i]) THEN SkipWs(c, i + 1) ELSE i

\* \s+ from index i: as SkipWs, 0 when there is no white space at i
Ws1(c, i) == IF i \in DOMAIN c /\ IsWs(c[i]) THEN SkipWs(c, i + 1) ELSE 0

\* the index of the first lexeme equal to t at or after i, 0 when there is none
FindTok(c, i, t) ==
  LET hits == {j \in i..Len(c) : j \in DOMAIN c /\ c[j] = t}
  IN IF hits = {} THEN 0 ELSE Min(hits)

\* a match that starts inside the lexeme: the pattern has no \b before kw
EndsWithAny(t, kws) == \E k \in kws : EndsWith(t, k)

\* content.substring(0, index).split('\n').length for the lexeme at index i
LineOf(c, i) == 1 + Cardinality({j \in 1..(i - 1) : j \in DOMAIN c /\ c[j] = NL})

NoMatch == [ok |-> FALSE, name |-> <<>>, end |-> 0]

Match(n, e) == [ok |-> TRUE, name |-> n, end |-> e]

(***************************************************************************)
(* The declaration patterns of extractEntities (parser.ts 125-130).  Each  *)
(* XAt(c, i) is the match of the pattern that starts in lexeme i, if any.  *)
(***************************************************************************)
\* \([^)]*\) or [a-zA-Z0-9_$]+ at p: the index after it, 0 when neither is there
ParamsEnd(c, p) ==
  IF Tok(c, p) = <<"(">>
  THEN LET q == FindTok(c, p + 1, <<")">>) IN IF q = 0 THEN 0 ELSE q + 1
  ELSE IF IsIdent(Tok(c, p)) THEN p + 1 ELSE 0

\* \s*=> at p: the index after the arrow, 0 when it is not there
ArrowEnd(c, p) ==
  LET a == SkipWs(c, p)
  IN IF Tok(c, a) = <<"=">> /\ Tok(c, a + 1) = <<">">> THEN a + 2 ELSE 0

\* function\s+(NAME), the keyword being lexeme k
JsFunctionAlt(c, k) ==
  LET j == Ws1(c, k + 1)
  IN IF j > 0 /\ IsIdent(Tok(c, j)) THEN Match(c[j], j + 1) ELSE NoMatch

\* (?:const|let|var)\s+(NAME)\s*=\s*(?:async\s*)?(?:\([^)]*\)|NAME)\s*=>
JsArrowAlt(c, k) ==
  LET j == Ws1(c, k + 1)
      e == SkipWs(c, j + 1)
      p == SkipWs(c, e + 1)
      withAsync == IF Tok(c, p) = kwAsync /\ ParamsEnd(c, SkipWs(c, p + 1)) > 0
                   THEN ArrowEnd(c, ParamsEnd(c, SkipWs(c, p + 1))) ELSE 0
      without == IF ParamsEnd(c, p) > 0 THEN ArrowEnd(c, ParamsEnd(c, p)) ELSE 0
  IN IF j > 0 /\ IsIdent(Tok(c, j)) /\ Tok(c, e) = <<"=">>
     THEN IF withAsync > 0 THEN Match(c[j], withAsync)
          ELSE IF without > 0 THEN Match(c[j], without)
          ELSE NoMatch
     ELSE NoMatch

JsCoreAt(c, k, exact) ==
  LET t == Tok(c, k)
      isFn == IF exact THEN t = kwFunction ELSE EndsWith(t, kwFunction)
      isVar == IF exact THEN t \in {kwConst, kwLet, kwVar}
               ELSE EndsWithAny(t, {kwConst, kwLet, kwVar})
  IN IF isFn /\ JsFunctionAlt(c, k).ok THEN JsFunctionAlt(c, k)
     ELSE IF isVar THEN JsArrowAlt(c, k)
     ELSE NoMatch

\* the javascript and typescript pattern (parser.ts 127-128)
JsDeclAt(c, i) ==
  LET k == Ws1(c, i + 1)
  IN IF EndsWith(Tok(c, i), kwExport) /\ k > 0 /\ JsCoreAt(c, k, TRUE).ok
     THEN JsCoreAt(c, k, TRUE)
     ELSE JsCoreAt(c, i, FALSE)

\* the python pattern (parser.ts 129): def\s+([a-zA-Z0-9_]+)\s*\(
PyDeclAt(c, i) ==
  LET j == Ws1(c, i + 1)
      e == SkipWs(c, j + 1)
  IN IF EndsWith(Tok(c, i), kwDef) /\ j > 0 /\ IsWord(Tok(c, j)) /\ Tok(c, e) = <<"(">>
     THEN Match(c[j], e + 1)
     ELSE NoMatch

\* fn\s+([a-zA-Z0-9_]+)\s*(?:<[^>]*>)?\s*\( , the keyword fn being lexeme k
RustFnAt(c, k) ==
  LET j == Ws1(c, k + 1)
      e == SkipWs(c, j + 1)
      g == IF Tok(c, e) = <<"<">> THEN FindTok(c, e + 1, <<">">>) ELSE 0
      afterGeneric == SkipWs(c, g + 1)
  IN IF Tok(c, k) = kwFn /\ j > 0 /\ IsWord(Tok(c, j))
     THEN IF g > 0 /\ Tok(c, afterGeneric) = <<"(">> THEN Match(c[j], afterGeneric + 1)
          ELSE IF Tok(c, e) = <<"(">> THEN Match(c[j], e + 1)
          ELSE NoMatch
     ELSE NoMatch

\* (?:async\s+)?fn... at lexeme k
RustAsyncFnAt(c, k) ==
  IF Tok(c, k) = kwAsync /\ Ws1(c, k + 1) > 0 /\ RustFnAt(c, Ws1(c, k + 1)).ok
  THEN RustFnAt(c, Ws1(c, k + 1))
  ELSE RustFnAt(c, k)

\* the rust pattern (parser.ts 126); \b lets the match start at a word only
RustDeclAt(c, i) ==
  LET vis == IF Tok(c, i + 1) = <<"(">> /\ FindTok(c, i + 2, <<")">>) > i + 2
             THEN FindTok(c, i + 2, <<")">>) + 1 ELSE i + 1
      k == IF Ws1(c, vis) > 0 THEN Ws1(c, vis) ELSE Ws1(c, i + 1)
  IN IF Tok(c, i) = kwPub /\ k > 0 /\ RustAsyncFnAt(c, k).ok
     THEN RustAsyncFnAt(c, k)
     ELSE RustAsyncFnAt(c, i)

\* patterns[lang] at lexeme i; go and java have no pattern (regex is undefined)
DeclAt(c, i, lang) ==
  IF lang \in {"javascript", "typescript"} THEN JsDeclAt(c, i)
  ELSE IF lang = "python" THEN PyDeclAt(c, i)
  ELSE IF lang = "rust" THEN RustDeclAt(c, i)
  ELSE NoMatch

\* the exec loop over a global pattern finds, from lastIndex on, the first
\* position a match starts at: the least of the starts at or after p, 0 when
\* there is none
FirstFrom(starts, p) ==
  IF {i \in starts : i >= p} = {} THEN 0 ELSE Min({i \in starts : i >= p})

RECURSIVE ScanDeclsFrom(_, _, _, _)
ScanDeclsFrom(c, starts, p, lang) ==
  LET i == FirstFrom(starts, p)
      m == DeclAt(c, i, lang)
  IN IF i = 0 THEN <<>>
     ELSE <<[name |-> m.name, index |-> i]>> \o ScanDeclsFrom(c, starts, m.end, lang)

\* the matches from lexeme p on, in text order, each with the lexeme index it
\* starts in; the search resumes at the end of the previous match
ScanDecls(c, p, lang) ==
  ScanDeclsFrom(c, {i \in DOMAIN c : DeclAt(c, i, lang).ok}, p, lang)

(***************************************************************************)
(* extractTypeScriptTypes' pattern (parser.ts 159):                        *)
(* (?:export\s+)?(?:interface|type)\s+([a-zA-Z0-9_$]+)                     *)
(***************************************************************************)
\* the keyword is lexeme k; text is match[0] up to and including the name
TypeCoreAt(c, k, exact) ==
  LET t == Tok(c, k)
      kw == IF exact THEN (IF t = kwInterface THEN kwInterface ELSE IF t = kwType THEN kwType ELSE <<>>)
            ELSE IF EndsWith(t, kwInterface) THEN kwInterface
            ELSE IF EndsWith(t, kwType) THEN kwType ELSE <<>>
      j == Ws1(c, k + 1)
  IN IF kw # <<>> /\ j > 0 /\ IsIdent(Tok(c, j))
     THEN [ok |-> TRUE, name |-> c[j], end |-> j + 1,
           text |-> kw \o Concat(SubSeq(c, k + 1, j))]
     ELSE [ok |-> FALSE, name |-> <<>>, end |-> 0, text |-> <<>>]

TypeAt(c, i) ==
  LET k == Ws1(c, i + 1)
      pre == TypeCoreAt(c, k, TRUE)
  IN IF EndsWith(Tok(c, i), kwExport) /\ k > 0 /\ pre.ok
     THEN [pre EXCEPT !.text = kwExport \o Concat(SubSeq(c, i + 1, k - 1)) \o @]
     ELSE TypeCoreAt(c, i, FALSE)

RECURSIVE ScanTypesFrom(_, _, _)
ScanTypesFrom(c, starts, p) ==
  LET i == FirstFrom(starts, p)
      m == TypeAt(c, i)
  IN IF i = 0 THEN <<>>
     ELSE <<[name |-> m.name, index |-> i,
             isInterface |-> Includes(m.text, kwInterface)]>> \o ScanTypesFrom(c, starts, m.end)

ScanTypes(c, p) == ScanTypesFrom(c, {i \in DOMAIN c : TypeAt(c, i).ok}, p)

(***************************************************************************)
(* extractClassMethods' patterns (parser.ts 188-189)                       *)
(***************************************************************************)
\* class\s+(NAME)\s*(?:extends\s+NAME)?\s*\{
ClassAt(c, i) ==
  LET j == Ws1(c, i + 1)
      e == SkipWs(c, j + 1)
      x == Ws1(c, e + 1)
      b == SkipWs(c, x + 1)
  IN IF EndsWith(Tok(c, i), kwClass) /\ j > 0 /\ IsIdent(Tok(c, j))
     THEN IF Tok(c, e) = kwExtends /\ x > 0 /\ IsIdent(Tok(c, x)) /\ Tok(c, b) = <<"{">>
          THEN Match(c[j], b + 1)
          ELSE IF Tok(c, e) = <<"{">> THEN Match(c[j], e + 1)
          ELSE NoMatch
     ELSE NoMatch

\* ([a-zA-Z0-9_$]+)\s*\([^)]*\)\s*(?::\s*[^{]+)?\s*\{ with the name in lexeme p
MethodCoreAt(c, p) ==
  LET q == SkipWs(c, p + 1)
      r == FindTok(c, q + 1, <<")">>)
      s == SkipWs(c, r + 1)
      u == FindTok(c, s + 1, <<"{">>)
  IN IF IsIdent(Tok(c, p)) /\ Tok(c, q) = <<"(">> /\ r > 0
     THEN IF Tok(c, s) = <<"{">> THEN Match(c[p], s + 1)
          ELSE IF Tok(c, s) = <<":">> /\ u > s + 1 THEN Match(c[p], u + 1)
          ELSE NoMatch
     ELSE NoMatch

\* the optional modifiers, in the pattern's order
Modifiers == << {kwAsync}, {kwPrivate, kwProtected, kwPublic}, {kwStatic}, {kwAsync} >>

RECURSIVE MethodFrom(_, _, _, _)
\* the modifier groups from `stage` on, then the name: a group is taken when
\* the rest then matches, and skipped otherwise (the pattern's backtracking)
MethodFrom(c, p, stage, first) ==
  IF stage > Len(Modifiers) THEN MethodCoreAt(c, p)
  ELSE LET isMod == IF first THEN EndsWithAny(Tok(c, p), Modifiers[stage])
                    ELSE Tok(c, p) \in Modifiers[stage]
           n == Ws1(c, p + 1)
       IN IF isMod /\ n > 0 /\ MethodFrom(c, n, stage + 1, FALSE).ok
          THEN MethodFrom(c, n, stage + 1, FALSE)
          ELSE MethodFrom(c, p, stage + 1, first)

MethodAt(c, i) == MethodFrom(c, i, 1, TRUE)

RECURSIVE ScanMethodsFrom(_, _, _)
ScanMethodsFrom(c, starts, p) ==
  LET i == FirstFrom(starts, p)
      m == MethodAt(c, i)
  IN IF i = 0 THEN <<>>
     ELSE <<[name |-> m.name, index |-> i]>> \o ScanMethodsFrom(c, starts, m.end)

ScanMethods(c, p) == ScanMethodsFrom(c, {i \in DOMAIN c : MethodAt(c, i).ok}, p)

RECURSIVE ScanClassesFrom(_, _, _)
ScanClassesFrom(c, starts, p) ==
  LET i == FirstFrom(starts, p)
      m == ClassAt(c, i)
  IN IF i = 0 THEN <<>>
     ELSE <<[name |-> m.name, index |-> i, end |-> m.end]>> \o ScanClassesFrom(c, starts, m.end)

\* as ScanDecls; end is the index after the class's opening brace
ScanClasses(c, p) == ScanClassesFrom(c, {i \in DOMAIN c : ClassAt(c, i).ok}, p)

RECURSIVE BraceScanFlat(_, _, _)
\* a seeded fault: the depth is not counted, the scan stops at the first `}`
BraceScanFlat(c, braceCount, idx) ==
  IF braceCount > 0 /\ idx <= Len(c)
  THEN BraceScanFlat(c, IF c[idx] = <<"}">> THEN 0 ELSE braceCount, idx + 1)
  ELSE idx

RECURSIVE BraceScanPastEnd(_, _, _)
\* a seeded fault: the scan is bounded by `<=` and steps past the end of the text
BraceScanPastEnd(c, braceCount, idx) ==
  IF braceCount > 0 /\ idx <= Len(c) + 1
  THEN BraceScanPastEnd(c,
                        IF Tok(c, idx) = <<"{">> THEN braceCount + 1
                        ELSE IF Tok(c, idx) = <<"}">> THEN braceCount - 1 ELSE braceCount,
                        idx + 1)
  ELSE idx

RECURSIVE BraceScan(_, _, _)
\* the loop of parser.ts 200-204; idx is the 1-based index of content[classEndIdx]
BraceScan(c, braceCount, idx) ==
  IF braceCount > 0 /\ idx <= Len(c)
  THEN BraceScan(c,
                 IF c[idx] = <<"{">> THEN braceCount + 1
                 ELSE IF c[idx] = <<"}">> THEN braceCount - 1 ELSE braceCount,
                 idx + 1)
  ELSE idx

(***************************************************************************)
(* extractImports' pattern (parser.ts 246) and the handling of a named     *)
(* import list (parser.ts 262-265)                                         *)
(***************************************************************************)
Quotes == {"'", "\""}

\* ['"]([^'"]+)['"] as one lexeme
IsStringLit(t) ==
  /\ Len(t) >= 3
  /\ t[1] \in Quotes
  /\ t[Len(t)] \in Quotes
  /\ \A i \in 2..(Len(t) - 1) : t[i] \notin Quotes

NoImport == [ok |-> FALSE, kind |-> "", name |-> <<>>, named |-> <<>>, path |-> <<>>, end |-> 0]

\* \s+from\s+['"]([^'"]+)['"] from lexeme p on
ImportTail(c, p, kind, name, named) ==
  LET f == Ws1(c, p)
      g == Ws1(c, f + 1)
  IN IF f > 0 /\ Tok(c, f) = kwFrom /\ g > 0 /\ IsStringLit(Tok(c, g))
     THEN [ok |-> TRUE, kind |-> kind, name |-> name, named |-> named,
           path |-> SubSeq(c[g], 2, Len(c[g]) - 1), end |-> g + 1]
     ELSE NoImport

ImportAt(c, i) ==
  LET j == Ws1(c, i + 1)
      q == FindTok(c, j + 1, <<"}">>)
      a == Ws1(c, j + 1)
      n == Ws1(c, a + 1)
  IN IF EndsWith(Tok(c, i), kwImport) /\ j > 0
     THEN IF IsIdent(Tok(c, j)) THEN ImportTail(c, j + 1, "default", c[j], <<>>)
          ELSE IF Tok(c, j) = <<"{">> /\ q > j + 1
               THEN ImportTail(c, q + 1, "named", <<>>, SubSeq(c, j + 1, q - 1))
          ELSE IF Tok(c, j) = <<"*">> /\ a > 0 /\ Tok(c, a) = kwAs /\ n > 0 /\ IsIdent(Tok(c, n))
               THEN ImportTail(c, n + 1, "star", c[n], <<>>)
          ELSE NoImport
     ELSE NoImport

RECURSIVE ScanImportsFrom(_, _, _)
ScanImportsFrom(c, starts, p) ==
  LET i == FirstFrom(starts, p)
  IN IF i = 0 THEN <<>>
     ELSE <<ImportAt(c, i)>> \o ScanImportsFrom(c, starts, ImportAt(c, i).end)

ScanImports(c, p) == ScanImportsFrom(c, {i \in DOMAIN c : ImportAt(c, i).ok}, p)

RECURSIVE TrimLeft(_)
TrimLeft(ts) == IF Len(ts) > 0 /\ IsWs(ts[1]) THEN TrimLeft(Tail(ts)) ELSE ts

RECURSIVE TrimRight(_)
TrimRight(ts) == IF Len(ts) > 0 /\ IsWs(ts[Len(ts)]) THEN TrimRight(Front(ts)) ELSE ts

\* String.prototype.trim on a run of lexemes
Trim(ts) == TrimRight(TrimLeft(ts))

RECURSIVE SplitToks(_, _, _)
\* namedImports.split(','): the lexemes between the commas
SplitToks(ts, i, parts) ==
  IF i > Len(ts) THEN parts
  ELSE IF ts[i] = <<",">> THEN SplitToks(ts, i + 1, Append(parts, <<>>))
  ELSE SplitToks(ts, i + 1, [parts EXCEPT ![Len(parts)] = Append(@, ts[i])])

\* the first match of \s+as\s+ : the index of its `as`, 0 when there is none
AsIndex(ts) ==
  LET hits == {k \in 2..(Len(ts) - 1) : ts[k] = kwAs /\ IsWs(ts[k - 1]) /\ IsWs(ts[k + 1])}
  IN IF hits = {} THEN 0 ELSE CHOOSE k \in hits : \A h \in hits : k <= h

\* const [orig, alias] = p.trim().split(/\s+as\s+/); alias is <<>> when undefined
SplitAs(part) ==
  LET ts == Trim(part)
      k == AsIndex(ts)
      rest == TrimLeft(SubSeq(ts, k + 1, Len(ts)))
      k2 == AsIndex(rest)
  IN IF k = 0 THEN [orig |-> Concat(ts), alias |-> <<>>]
     ELSE [orig |-> Concat(TrimRight(SubSeq(ts, 1, k - 1))),
           alias |-> IF k2 = 0 THEN Concat(rest)
                     ELSE Concat(TrimRight(SubSeq(rest, 1, k2 - 1)))]

strDefault == <<"d","e","f","a","u","l","t">>

strStar == <<"*">>

RECURSIVE SetNamed(_, _, _, _)
\* the loop of parser.ts 262-265 over the parts from index i on
SetNamed(fileImports, parts, i, resolvedPath) ==
  IF i > Len(parts) THEN fileImports
  ELSE LET oa == SplitAs(parts[i])
           local == IF oa.alias # <<>> THEN oa.alias ELSE oa.orig
       IN SetNamed(MapSet(fileImports, local, [sourceFile |-> resolvedPath, originalName |-> oa.orig]),
                   parts, i + 1, resolvedPath)

RECURSIVE ImportLoop(_, _, _, _)
\* the while loop of parser.ts 249-267 over the matches ms from index i on
ImportLoop(fileImports, ms, i, path) ==
  IF i > Len(ms) THEN fileImports
  ELSE LET m == ms[i]
           resolvedPath == resolveImportPath(path, m.path)
           next == IF m.kind = "default"
                   THEN MapSet(fileImports, m.name, [sourceFile |-> resolvedPath, originalName |-> strDefault])
                   ELSE IF m.kind = "star"
                   THEN MapSet(fileImports, m.name, [sourceFile |-> resolvedPath, originalName |-> strStar])
                   ELSE SetNamed(fileImports, SplitToks(m.named, 1, << <<>> >>), 1, resolvedPath)
       IN ImportLoop(next, ms, i + 1, path)

(***************************************************************************)
(* extractCalls' pattern (parser.ts 300-301): new RegExp(`\\b${callName}   *)
(* \\s*\\(`, 'g'), matched on the characters of the text.  The name is put *)
(* into the pattern as it is: `.` stands for any character but a line      *)
(* break and `$` for the end of the text; every other character a name of  *)
(* the inputs holds stands for itself.                                     *)
(***************************************************************************)
IsW(t, p) == p \in DOMAIN t /\ t[p] \in RegexWordChar

\* \b between the characters p-1 and p
Boundary(t, p) == IsW(t, p - 1) # IsW(t, p)

RECURSIVE NameEnd(_, _, _, _)
\* the name from its character k on, at position p: the position after it, 0 on failure
NameEnd(t, p, name, k) ==
  IF k > Len(name) THEN p
  ELSE IF name[k] = "$"
       THEN IF p = Len(t) + 1 THEN NameEnd(t, p, name, k + 1) ELSE 0
  ELSE IF p > Len(t) THEN 0
  ELSE IF name[k] = "."
       THEN IF t[p] # "\n" THEN NameEnd(t, p + 1, name, k + 1) ELSE 0
  ELSE IF t[p] = name[k] THEN NameEnd(t, p + 1, name, k + 1) ELSE 0

RECURSIVE SkipWsChars(_, _)
SkipWsChars(t, p) == IF p \in DOMAIN t /\ t[p] \in {" ", "\n"} THEN SkipWsChars(t, p + 1) ELSE p

\* the end of the match that starts at position p, 0 when there is none
CallAt(t, p, callName) ==
  LET e == NameEnd(t, p, callName, 1)
      q == SkipWsChars(t, e)
  IN IF Boundary(t, p) /\ e > 0 /\ q \in DOMAIN t /\ t[q] = "(" THEN q + 1 ELSE 0

RECURSIVE ScanCallsFrom(_, _, _, _)
ScanCallsFrom(t, starts, p, callName) ==
  LET i == FirstFrom(starts, p)
  IN IF i = 0 THEN <<>>
     ELSE <<i>> \o ScanCallsFrom(t, starts, CallAt(t, i, callName), callName)

\* match.index (1-based) of every match, in text order
ScanCalls(t, p, callName) ==
  ScanCallsFrom(t, {i \in DOMAIN t : CallAt(t, i, callName) > 0}, p, callName)

\* content.substring(0, index).split('\n').length, index 1-based
LineOfChar(t, p) == 1 + Cardinality({j \in 1..(p - 1) : t[j] = "\n"})

(***************************************************************************)
(* The parser's fields as one record st:                                   *)
(*   nodes           Map id -> reference of a node object (an index of     *)
(*                   objs)                                                 *)
(*   links           reference of the array this.links (an index of arrs)  *)
(*   folderColors    Map folder -> colour                                  *)
(*   importRegistry  Map path -> Map localName -> {sourceFile,             *)
(*                   originalName}                                         *)
(*   classMethods    Map path -> Map className -> Map methodName -> id     *)
(*   objs, arrs      the heap: node objects, link arrays                   *)
(***************************************************************************)
greenPalette ==
  << "#00ff41", "#00ff9f", "#ccff00", "#00ffff", "#a0ff00",
     "#39ff14", "#7fff00", "#00ffcc", "#f0ff00", "#adff2f" >>

strRoot == <<"r","o","o","t">>

\* the folder key of getFolderColor (parser.ts 39-41)
FolderOf(path) ==
  LET folder == Join(Front(Split(path, {"/", "\\"})), <<"/">>)
  IN IF folder = <<>> THEN strRoot ELSE folder

\* getFolderColor (parser.ts 38-49): the folderColors map after the call
getFolderColorMap(folderColors, path) ==
  IF MapHas(folderColors, FolderOf(path)) THEN folderColors
  ELSE MapSet(folderColors, FolderOf(path),
              greenPalette[(Len(folderColors) % Len(greenPalette)) + 1])

\* getFolderColor: the colour it returns
getFolderColor(folderColors, path) == MapGet(getFolderColorMap(folderColors, path), FolderOf(path))

\* this.nodes.set(id, {...}): a new object, under the key id
SetNode(st, id, node) ==
  [st EXCEPT !.objs = Append(@, node), !.nodes = MapSet(@, id, Len(st.objs) + 1)]

\* the node objects of this.nodes.values(), in map order
NodeValues(st) == [i \in DOMAIN st.nodes |-> st.objs[st.nodes[i].val]]

\* the denylist of parser.ts 139
Keywords == { <<"i","f">>, <<"w","h","i","l","e">>, <<"f","o","r">>,
              <<"l","o","o","p">>, <<"m","a","t","c","h">> }

IsDenied(name) == name \in Keywords

RECURSIVE FunctionLoop(_, _, _, _, _, _, _)
\* the while loop of parser.ts 135-146 over the matches ms from index i on
FunctionLoop(st, ms, i, content, path, lang, folderColor) ==
  IF i > Len(ms) THEN st
  ELSE LET name == ms[i].name
           id == generateId(path, name)
           node == [id |-> id, name |-> name, file |-> path,
                    line |-> LineOf(content, ms[i].index), size |-> 80,
                    color |-> folderColor, language |-> lang, linesOfCode |-> 0,
                    type |-> "function", isType |-> FALSE]
       IN FunctionLoop(IF name = <<>> \/ IsDenied(name) THEN st ELSE SetNode(st, id, node),
                       ms, i + 1, content, path, lang, folderColor)

RECURSIVE TypeLoop(_, _, _, _, _)
\* extractTypeScriptTypes (parser.ts 158-185) over the matches ms from index i on
TypeLoop(st, ms, i, content, path) ==
  IF i > Len(ms) THEN st
  ELSE LET typeName == ms[i].name
           typeId == path \o <<":">> \o typeName
           node == [id |-> typeId, name |-> typeName, file |-> path,
                    line |-> LineOf(content, ms[i].index), size |-> 60,
                    color |-> IF ms[i].isInterface THEN "#00bfff" ELSE "#ff69b4",
                    language |-> "typescript", linesOfCode |-> 0,
                    type |-> IF ms[i].isInterface THEN "interface" ELSE "type",
                    isType |-> TRUE]
       IN TypeLoop(IF ~MapHas(st.nodes, typeId) THEN SetNode(st, typeId, node) ELSE st,
                   ms, i + 1, content, path)

extractTypeScriptTypes(st, content, path) == TypeLoop(st, ScanTypes(content, 1), 1, content, path)

RECURSIVE MethodLoop(_, _, _, _, _, _, _, _, _)
\* the loop of parser.ts 210-230 over the method matches ms from index i on;
\* acc is [st, classMethods: Map methodName -> id]
MethodLoop(acc, ms, i, content, classStartIdx, className, path, lang, folderColor) ==
  IF i > Len(ms) THEN acc
  ELSE LET methodName == ms[i].name
           methodLine == LineOf(content, classStartIdx + ms[i].index - 1)
           methodId == path \o <<":">> \o className \o <<".">> \o methodName
           node == [id |-> methodId, name |-> className \o <<".">> \o methodName,
                    file |-> path, line |-> methodLine, size |-> 80,
                    color |-> folderColor, language |-> lang, linesOfCode |-> 0,
                    type |-> "method", isType |-> FALSE]
       IN MethodLoop([st |-> SetNode(acc.st, methodId, node),
                      classMethods |-> MapSet(acc.classMethods, methodName, methodId)],
                     ms, i + 1, content, classStartIdx, className, path, lang, folderColor)

RECURSIVE ClassLoop(_, _, _, _, _, _, _)
\* the loop of parser.ts 192-239 over the class matches cs from index i on
ClassLoop(st, cs, i, content, path, lang, folderColor) ==
  IF i > Len(cs) THEN st
  ELSE LET className == cs[i].name
           classStartIdx == cs[i].index
           classEndIdx == BraceScan(content, 1, cs[i].end)
           classContent == SubSeq(content, classStartIdx, classEndIdx - 1)
           acc == MethodLoop([st |-> st, classMethods |-> <<>>], ScanMethods(classContent, 1), 1,
                             content, classStartIdx, className, path, lang, folderColor)
           withFile == IF MapHas(acc.st.classMethods, path) THEN acc.st.classMethods
                       ELSE MapSet(acc.st.classMethods, path, <<>>)
           fileClassMethods == MapSet(MapGet(withFile, path), className, acc.classMethods)
       IN ClassLoop([acc.st EXCEPT !.classMethods = MapSet(withFile, path, fileClassMethods)],
                    cs, i + 1, content, path, lang, folderColor)

extractClassMethods(st, content, path, lang, folderColor) ==
  ClassLoop(st, ScanClasses(content, 1), 1, content, path, lang, folderColor)

\* extractEntities (parser.ts 122-156)
extractEntities(st, content, path, lang) ==
  LET folderColor == getFolderColor(st.folderColors, path)
      s0 == [st EXCEPT !.folderColors = getFolderColorMap(@, path)]
      s1 == FunctionLoop(s0, ScanDecls(content, 1, lang), 1, content, path, lang, folderColor)
      s2 == IF lang \in {"typescript", "javascript"}
            THEN extractClassMethods(s1, content, path, lang, folderColor) ELSE s1
  IN IF lang = "typescript" THEN extractTypeScriptTypes(s2, content, path) ELSE s2

\* extractImports (parser.ts 242-269)
extractImports(st, content, path, lang) ==
  IF lang # "typescript" /\ lang # "javascript" THEN st
  ELSE [st EXCEPT !.importRegistry =
          MapSet(@, path, ImportLoop(<<>>, ScanImports(content, 1), 1, path))]

(***************************************************************************)
(* Links (parser.ts 271-363)                                               *)
(***************************************************************************)
\* the array this.links
Links(st) == st.arrs[st.links]

\* this.links.push(link)
PushLink(st, link) == [st EXCEPT !.arrs[st.links] = Append(@, link)]

\* a seeded fault: the search of parser.ts 311 and 349 finds nothing
existingLinkNever(ls, source, target) == FALSE

\* this.links.find(l => l.source === source && l.target === target), as a boolean
existingLink(ls, source, target) ==
  \E i \in DOMAIN ls : ls[i].source = source /\ ls[i].target = target

\* the suffix list of parser.ts 336
extensions ==
  << <<>>, <<".","t","s">>, <<".","t","s","x">>, <<".","j","s">>, <<".","j","s","x">>,
     <<".","d",".","t","s">>,
     <<"/","i","n","d","e","x",".","t","s">>, <<"/","i","n","d","e","x",".","t","s","x">>,
     <<"/","i","n","d","e","x",".","j","s">>, <<"/","i","n","d","e","x",".","j","s","x">> >>

RECURSIVE ProbeLoopNoBreak(_, _, _, _)
\* a seeded fault: the probing goes on after a hit
ProbeLoopNoBreak(st, importingFile, resolvedPath, e) ==
  IF e > Len(extensions) THEN st
  ELSE LET targetPath == resolvedPath \o extensions[e]
       IN ProbeLoopNoBreak(IF MapHas(st.nodes, targetPath)
                              /\ ~existingLink(Links(st), importingFile, targetPath)
                           THEN PushLink(st, [source |-> importingFile, target |-> targetPath,
                                              value |-> 3, type |-> "import"])
                           ELSE st,
                           importingFile, resolvedPath, e + 1)

RECURSIVE ProbeLoop(_, _, _, _)
\* the loop of parser.ts 344-360 over the suffixes from index e on
ProbeLoop(st, importingFile, resolvedPath, e) ==
  IF e > Len(extensions) THEN st
  ELSE LET targetPath == resolvedPath \o extensions[e]
       IN IF MapHas(st.nodes, targetPath)
          THEN IF ~existingLink(Links(st), importingFile, targetPath)
               THEN PushLink(st, [source |-> importingFile, target |-> targetPath,
                                  value |-> 3, type |-> "import"])
               ELSE st
          ELSE ProbeLoop(st, importingFile, resolvedPath, e + 1)

RECURSIVE BindingLoop(_, _, _, _)
\* the loop of parser.ts 341-361 over the bindings from index b on
BindingLoop(st, importingFile, imports, b) ==
  IF b > Len(imports) THEN st
  ELSE BindingLoop(ProbeLoop(st, importingFile, imports[b].val.sourceFile, 1),
                   importingFile, imports, b + 1)

RECURSIVE ImporterLoop(_, _)
\* the loop of parser.ts 338-362 over the import registry from index f on
ImporterLoop(st, f) ==
  IF f > Len(st.importRegistry) THEN st
  ELSE IF ~MapHas(st.nodes, st.importRegistry[f].key) THEN ImporterLoop(st, f + 1)
  ELSE ImporterLoop(BindingLoop(st, st.importRegistry[f].key, st.importRegistry[f].val, 1), f + 1)

createFileImportLinks(st) == ImporterLoop(st, 1)

RECURSIVE InsertDescUnstable(_, _)
\* a seeded fault: the sort puts an entry before those of the same line
InsertDescUnstable(sorted, n) ==
  IF Len(sorted) = 0 THEN <<n>>
  ELSE IF sorted[1].line > n.line THEN <<sorted[1]>> \o InsertDescUnstable(Tail(sorted), n)
  ELSE <<n>> \o sorted

RECURSIVE InsertDesc(_, _)
\* n put into a list sorted by descending line, after the entries that do not
\* come later than it: Array.prototype.sort is stable
InsertDesc(sorted, n) ==
  IF Len(sorted) = 0 THEN <<n>>
  ELSE IF sorted[1].line >= n.line THEN <<sorted[1]>> \o InsertDesc(Tail(sorted), n)
  ELSE <<n>> \o sorted

RECURSIVE SortDesc(_, _, _)
\* .sort((a, b) => b.line - a.line)
SortDesc(ns, i, sorted) ==
  IF i > Len(ns) THEN sorted ELSE SortDesc(ns, i + 1, InsertDesc(sorted, ns[i]))

\* a seeded fault: the file node is among the entities a call site can be
\* attributed to
EnclosingCandidatesWithFile(st, path, line) ==
  LET InFile(n) == n.file = path
      NotAfter(n) == n.line <= line
  IN SelectSeq(SortDesc(SelectSeq(NodeValues(st), InFile), 1, <<>>), NotAfter)

\* a seeded fault: a call on the declaration line is not attributed to the
\* entity declared there
EnclosingCandidatesStrict(st, path, line) ==
  LET InFile(n) == n.file = path /\ n.type # "file"
      Before(n) == n.line < line
  IN SelectSeq(SortDesc(SelectSeq(NodeValues(st), InFile), 1, <<>>), Before)

\* findEnclosingEntity (parser.ts 328-333): the entities that qualify, best first
EnclosingCandidates(st, path, line) ==
  LET InFile(n) == n.file = path /\ n.type # "file"
      NotAfter(n) == n.line <= line
  IN SelectSeq(SortDesc(SelectSeq(NodeValues(st), InFile), 1, <<>>), NotAfter)

\* /\.(ts|js)x?$/ replaced by ''
StripSourceExt(f) ==
  IF EndsWith(f, <<".","t","s","x">>) \/ EndsWith(f, <<".","j","s","x">>) THEN SubSeq(f, 1, Len(f) - 4)
  ELSE IF EndsWith(f, <<".","t","s">>) \/ EndsWith(f, <<".","j","s">>) THEN SubSeq(f, 1, Len(f) - 3)
  ELSE f

\* f.replace(/\.(ts|js)x?$/, '').split('/').pop()
BaseName(f) == Last(Split(StripSourceExt(f), {"/"}))

\* the test of parser.ts 288-289 for one binding
BindingMatches(targetNode, meta) ==
  /\ \/ BaseName(targetNode.file) = BaseName(meta.sourceFile)
     \/ Includes(targetNode.file, meta.sourceFile)
  /\ \/ meta.originalName = strStar
     \/ meta.originalName = targetNode.name

\* the loop of parser.ts 284-295: the index of the first binding that matches, 0 when none
FirstBinding(targetNode, fileImports) ==
  LET hits == {b \in DOMAIN fileImports : BindingMatches(targetNode, fileImports[b].val)}
  IN IF hits = {} THEN 0 ELSE CHOOSE b \in hits : \A h \in hits : b <= h

\* isVisible and callName of parser.ts 280-296; hasImports is false when
\* importRegistry.get(path) is undefined
Visibility(targetNode, path, hasImports, fileImports) ==
  LET b == IF hasImports THEN FirstBinding(targetNode, fileImports) ELSE 0
  IN IF targetNode.file = path THEN [isVisible |-> TRUE, callName |-> targetNode.name]
     ELSE IF b > 0 THEN [isVisible |-> TRUE, callName |-> fileImports[b].key]
     ELSE [isVisible |-> FALSE, callName |-> targetNode.name]

\* the test of parser.ts 298: the target is scanned for
IsScanned(isVisible, lang) == isVisible \/ lang = "python"

\* a seeded fault: the test sourceNode.id !== targetNode.id is left out
IsOtherNodeUntested(sourceId, targetId) == TRUE

\* the test of parser.ts 309 once an enclosing entity is found
IsOtherNode(sourceId, targetId) == sourceId # targetId

\* node.size += 0.3 on the object held under id; sizes are in tenths
\* a seeded fault: the target of a new call link keeps its size
BumpSizeNever(st, id) == st

BumpSize(st, id) ==
  IF MapHas(st.nodes, id) THEN [st EXCEPT !.objs[MapGet(st.nodes, id)].size = @ + 3] ELSE st

RECURSIVE MatchLoop(_, _, _, _, _, _)
\* the while loop of parser.ts 303-324 over the matches ms from index i on
MatchLoop(st, ms, i, text, path, targetNode) ==
  IF i > Len(ms) THEN st
  ELSE LET currentLine == LineOfChar(text, ms[i])
           cands == EnclosingCandidates(st, path, currentLine)
           sourceId == cands[1].id
           next == IF Len(cands) > 0 /\ IsOtherNode(sourceId, targetNode.id)
                      /\ ~existingLink(Links(st), sourceId, targetNode.id)
                   THEN BumpSize(PushLink(st, [source |-> sourceId, target |-> targetNode.id,
                                                value |-> 1, type |-> "call"]),
                                 targetNode.id)
                   ELSE st
       IN MatchLoop(next, ms, i + 1, text, path, targetNode)

RECURSIVE TargetLoop(_, _, _, _, _, _)
\* the loop of parser.ts 277-325 over allNodes (references) from index i on
TargetLoop(st, allNodes, i, content, path, lang) ==
  IF i > Len(allNodes) THEN st
  ELSE LET targetNode == st.objs[allNodes[i]]
           hasImports == MapHas(st.importRegistry, path)
           fileImports == IF hasImports THEN MapGet(st.importRegistry, path) ELSE <<>>
           v == Visibility(targetNode, path, hasImports, fileImports)
           text == Concat(content)
       IN IF targetNode.type = "file" \/ ~IsScanned(v.isVisible, lang)
          THEN TargetLoop(st, allNodes, i + 1, content, path, lang)
          ELSE TargetLoop(MatchLoop(st, ScanCalls(text, 1, v.callName), 1, text, path, targetNode),
                          allNodes, i + 1, content, path, lang)

\* extractCalls (parser.ts 271-326)
extractCalls(st, content, path, lang) ==
  TargetLoop(st, MapValues(st.nodes), 1, content, path, lang)

RECURSIVE StructureLoopReversed(_, _, _)
\* a seeded fault: the containment link points from the entity to its file
StructureLoopReversed(st, refs, i) ==
  IF i > Len(refs) THEN st
  ELSE LET node == st.objs[refs[i]]
       IN StructureLoopReversed(IF node.type # "file" /\ MapHas(st.nodes, node.file)
                                THEN PushLink(st, [source |-> node.id, target |-> node.file,
                                                   value |-> 2, type |-> "structure"])
                                ELSE st,
                                refs, i + 1)

RECURSIVE StructureLoop(_, _, _)
\* the loop of parser.ts 95-104 over the node references from index i on
StructureLoop(st, refs, i) ==
  IF i > Len(refs) THEN st
  ELSE LET node == st.objs[refs[i]]
       IN StructureLoop(IF node.type # "file" /\ MapHas(st.nodes, node.file)
                        THEN PushLink(st, [source |-> node.file, target |-> node.id,
                                           value |-> 2, type |-> "structure"])
                        ELSE st,
                        refs, i + 1)

\* detectLanguage (parser.ts 112-120)
detectLanguage(fileName, fallback) ==
  IF EndsWith(fileName, <<".","t","s">>) \/ EndsWith(fileName, <<".","t","s","x">>) THEN "typescript"
  ELSE IF EndsWith(fileName, <<".","j","s">>) \/ EndsWith(fileName, <<".","j","s","x">>) THEN "javascript"
  ELSE IF EndsWith(fileName, <<".","p","y">>) THEN "python"
  ELSE IF EndsWith(fileName, <<".","g","o">>) THEN "go"
  ELSE IF EndsWith(fileName, <<".","j","a","v","a">>) THEN "java"
  ELSE IF EndsWith(fileName, <<".","r","s">>) THEN "rust"
  ELSE fallback

(***************************************************************************)
(* The state machine.  analyzeFiles is an async function: a call runs to   *)
(* its first `await file.text()` and is suspended there; each resumption   *)
(* runs to the next await, and after the last one to the return.  Several  *)
(* invocations share the one exported instance (parser.ts 365), and only   *)
(* one of them runs at a time (`running`); between two awaits nothing else *)
(* runs.  The part after the last await is modelled step by step, one step *)
(* per loop iteration of parser.ts 81-93, all under `running`.             *)
(***************************************************************************)
VARIABLES
  nodes, links, folderColors, importRegistry, classMethods,  \* the instance's fields
  objs, arrs,       \* the heap
  pc,               \* pc[r]: where invocation r is
  args,             \* args[r]: [files, mainLanguage] of invocation r
  pos,              \* pos[r]: the index of the running loop
  fileContents,     \* fileContents[r]: the local array of parser.ts 62
  graph,            \* graph[r]: the value returned, as references
  returned,         \* returned[r]: the graph as it was at the return
  running           \* the invocation that holds the thread, 0 when none does

vars == << nodes, links, folderColors, importRegistry, classMethods, objs, arrs,
           pc, args, pos, fileContents, graph, returned, running >>

\* the number of analyzeFiles invocations of a behaviour
MaxRuns == 2

Runs == 1..MaxRuns

This == [nodes |-> nodes, links |-> links, folderColors |-> folderColors,
         importRegistry |-> importRegistry, classMethods |-> classMethods,
         objs |-> objs, arrs |-> arrs]

Becomes(st) ==
  /\ nodes' = st.nodes
  /\ links' = st.links
  /\ folderColors' = st.folderColors
  /\ importRegistry' = st.importRegistry
  /\ classMethods' = st.classMethods
  /\ objs' = st.objs
  /\ arrs' = st.arrs

\* a seeded fault: `this.links = []` is left out, the array lives on
ClearedButLinks(st) ==
  [st EXCEPT !.nodes = <<>>, !.folderColors = <<>>, !.importRegistry = <<>>, !.classMethods = <<>>]

\* parser.ts 56-60; `this.links = []` makes a new array
Cleared(st) ==
  [st EXCEPT !.nodes = <<>>, !.arrs = Append(@, <<>>), !.links = Len(st.arrs) + 1,
             !.folderColors = <<>>, !.importRegistry = <<>>, !.classMethods = <<>>]

\* a graph held by reference, read in the heap st
Deref(st, g) == [nodes |-> [i \in DOMAIN g.nodes |-> st.objs[g.nodes[i]]],
                 links |-> st.arrs[g.links]]

NoGraph == [nodes |-> <<>>, links |-> 0]

NoValue == [nodes |-> <<>>, links |-> <<>>]

\* a seeded fault: the call pass is moved before the import pass
PhaseAfterCallsEarly(phase) ==
  CASE phase = "fileNodes" -> "entities"
    [] phase = "entities" -> "calls"
    [] phase = "calls" -> "imports"
    [] phase = "imports" -> "importLinks"
    [] phase = "importLinks" -> "structure"

\* the order of the passes of parser.ts 73-104
PhaseAfter(phase) ==
  CASE phase = "fileNodes" -> "entities"
    [] phase = "entities" -> "imports"
    [] phase = "imports" -> "importLinks"
    [] phase = "importLinks" -> "calls"
    [] phase = "calls" -> "structure"

PerFile == {"entities", "imports", "calls"}

RECURSIVE Enter(_, _)
\* the next pass that has something to do: a loop over no file is passed over
Enter(phase, n) == IF phase \in PerFile /\ n = 0 THEN Enter(PhaseAfter(phase), n) ELSE phase

\* the pc after one iteration of a loop over n files, the iteration i being done
Advance(phase, i, n) == IF i < n THEN phase ELSE Enter(PhaseAfter(phase), n)

(***************************************************************************)
(* analyzeProject, the analyzer of the command line (App.tsx 112-317).  It *)
(* is one function with its own maps and its own patterns; nodes, links    *)
(* and importRegistry are its locals (App.tsx 113-127).  exportRegistry    *)
(* and classMethods are written or declared and never read (App.tsx 115,   *)
(* 126, 193) and are left out.                                             *)
(***************************************************************************)
\* getLang (App.tsx 129-138); glob yields only files of these extensions
getLang(p) == detectLanguage(p, "typescript")

kwFunc == <<"f","u","n","c">>

\* patterns[lang] of App.tsx 140-147 at lexeme i
CliDeclAt(c, i, lang) ==
  LET \* \s*\( after the name at lexeme j: the match of NAME\s*\(
      Named(j) == IF j > 0 /\ IsWord(Tok(c, j)) /\ Tok(c, SkipWs(c, j + 1)) = <<"(">>
                  THEN Match(c[j], SkipWs(c, j + 1) + 1) ELSE NoMatch
      \* =\s*.*=> : the last `=>` of the line the text after `=` starts on
      Arrows(p) == {q \in p..Len(c) : /\ Tok(c, q) = <<"=">> /\ Tok(c, q + 1) = <<">">>
                                      /\ \A n \in p..q : c[n] # NL}
      ArrowAlt(k) ==
        LET j == Ws1(c, k + 1)
            e == SkipWs(c, j + 1)
            p == SkipWs(c, e + 1)
        IN IF j > 0 /\ IsIdent(Tok(c, j)) /\ Tok(c, e) = <<"=">> /\ Arrows(p) # {}
           THEN Match(c[j], (CHOOSE q \in Arrows(p) : \A y \in Arrows(p) : y <= q) + 2) ELSE NoMatch
      JsCore(k, exact) ==
        LET t == Tok(c, k)
            isFn == IF exact THEN t = kwFunction ELSE EndsWith(t, kwFunction)
            isVar == IF exact THEN t \in {kwConst, kwLet, kwVar}
                     ELSE EndsWithAny(t, {kwConst, kwLet, kwVar})
        IN IF isFn /\ JsFunctionAlt(c, k).ok THEN JsFunctionAlt(c, k)
           ELSE IF isVar THEN ArrowAlt(k)
           ELSE NoMatch
      Js == LET k == Ws1(c, i + 1)
            IN IF EndsWith(Tok(c, i), kwExport) /\ k > 0 /\ JsCore(k, TRUE).ok
               THEN JsCore(k, TRUE) ELSE JsCore(i, FALSE)
      \* (?:public|private|protected|static)\s+(?:[a-zA-Z0-9_<>]+\s+)?(NAME)\s*\(
      TypeEnd(j) == Min({q \in j..(Len(c) + 1) :
                           ~(IsWord(Tok(c, q)) \/ Tok(c, q) \in {<<"<">>, <<">">>})})
      Java == LET j == Ws1(c, i + 1)
                  n == IF j > 0 /\ TypeEnd(j) > j THEN Ws1(c, TypeEnd(j)) ELSE 0
              IN IF ~EndsWithAny(Tok(c, i), {kwPublic, kwPrivate, kwProtected, kwStatic})
                 THEN NoMatch
                 ELSE IF Named(n).ok THEN Named(n) ELSE Named(j)
      \* func\s+(?:\([^)]*\)\s+)?(NAME)\s*\(
      Go == LET j == Ws1(c, i + 1)
                close == IF j > 0 /\ Tok(c, j) = <<"(">> THEN FindTok(c, j + 1, <<")">>) ELSE 0
                n == IF close > 0 THEN Ws1(c, close + 1) ELSE 0
            IN IF ~EndsWith(Tok(c, i), kwFunc) THEN NoMatch
               ELSE IF Named(n).ok THEN Named(n) ELSE Named(j)
  IN IF lang \in {"typescript", "javascript"} THEN Js
     ELSE IF lang = "python" THEN PyDeclAt(c, i)
     ELSE IF lang = "java" THEN Java
     ELSE IF lang = "go" THEN Go
     ELSE RustDeclAt(c, i)

RECURSIVE CliScanDecls(_, _, _)
\* the exec loop of App.tsx 174-176: the matches from lexeme p on, in text order
CliScanDecls(c, p, lang) ==
  LET i == FirstFrom({k \in DOMAIN c : CliDeclAt(c, k, lang).ok}, p)
      m == CliDeclAt(c, i, lang)
  IN IF i = 0 THEN <<>>
     ELSE <<[name |-> m.name, index |-> i]>> \o CliScanDecls(c, m.end, lang)

\* the names of App.tsx 178 that give no entity
CliKeywords == { <<"i","f">>, <<"f","o","r">>, <<"w","h","i","l","e">>, <<"s","w","i","t","c","h">>,
                 <<"r","e","t","u","r","n">>, <<"m","a","t","c","h">>, <<"l","o","o","p">> }

RECURSIVE CliFunctionLoop(_, _, _, _, _, _)
\* the while loop of App.tsx 174-192 over the matches ms from index i on
CliFunctionLoop(st, ms, i, content, relPath, lang) ==
  IF i > Len(ms) THEN st
  ELSE LET name == ms[i].name
           id == relPath \o <<":">> \o name
           node == [id |-> id, name |-> name, file |-> relPath,
                    line |-> LineOf(content, ms[i].index), size |-> 60,
                    color |-> IF lang = "rust" THEN "#dea584" ELSE "#00ff41",
                    language |-> lang, linesOfCode |-> LineOf(content, Len(content) + 1),
                    type |-> "function", isType |-> FALSE]
       IN CliFunctionLoop(IF name = <<>> \/ name \in CliKeywords THEN st ELSE SetNode(st, id, node),
                          ms, i + 1, content, relPath, lang)

\* App.tsx 208-227: the first of the potential files that is a file of the
\* project, relative to the root; the specifier as it is when there is none
\* or when it is not relative.  disk is the set of the project's file paths.
CliResolve(disk, relPath, importPath) ==
  LET absoluteImportPath == resolveImportPath(relPath, importPath)
      potentialFiles == << absoluteImportPath,
                           absoluteImportPath \o <<".","t","s">>,
                           absoluteImportPath \o <<".","t","s","x">>,
                           absoluteImportPath \o <<".","j","s">>,
                           absoluteImportPath \o <<".","j","s","x">>,
                           normalizePath(absoluteImportPath \o <<"/","i","n","d","e","x",".","t","s">>),
                           normalizePath(absoluteImportPath \o <<"/","i","n","d","e","x",".","j","s">>) >>
      hits == {p \in DOMAIN potentialFiles : potentialFiles[p] \in disk}
  IN IF StartsWith(importPath, <<".">>) /\ hits # {} THEN potentialFiles[Min(hits)] ELSE importPath

RECURSIVE CliImportLoop(_, _, _, _, _)
\* the while loop of App.tsx 200-241 over the import matches ms from index i on
CliImportLoop(fileImports, ms, i, disk, relPath) ==
  IF i > Len(ms) THEN fileImports
  ELSE LET m == ms[i]
           resolvedPath == CliResolve(disk, relPath, m.path)
           next == IF m.kind = "default"
                   THEN MapSet(fileImports, m.name, [sourceFile |-> resolvedPath, originalName |-> strDefault])
                   ELSE IF m.kind = "star"
                   THEN MapSet(fileImports, m.name, [sourceFile |-> resolvedPath, originalName |-> strStar])
                   ELSE SetNamed(fileImports, SplitToks(m.named, 1, << <<>> >>), 1, resolvedPath)
       IN CliImportLoop(next, ms, i + 1, disk, relPath)

\* one iteration of the loop of App.tsx 149-244 for the file of path relPath
CliScanFile(st, disk, relPath, content) ==
  LET lang == getLang(relPath)
      fileNode == [id |-> relPath, name |-> Last(Split(relPath, {"/"})), file |-> relPath,
                   line |-> 0, size |-> 120, color |-> "#ffd700", language |-> "system",
                   linesOfCode |-> LineOf(content, Len(content) + 1),
                   type |-> "file", isType |-> FALSE]
      s1 == IF MapHas(st.nodes, relPath) THEN st ELSE SetNode(st, relPath, fileNode)
      s2 == CliFunctionLoop(s1, CliScanDecls(content, 1, lang), 1, content, relPath, lang)
  IN IF lang \in {"typescript", "javascript"}
     THEN [s2 EXCEPT !.importRegistry =
             MapSet(@, relPath, CliImportLoop(<<>>, ScanImports(content, 1), 1, disk, relPath))]
     ELSE s2

RECURSIVE CliImportLinks(_, _, _)
\* the loops of App.tsx 246-265, at binding b of the importing file f
CliImportLinks(st, f, b) ==
  IF f > Len(st.importRegistry) THEN st
  ELSE LET importingFile == st.importRegistry[f].key
           imports == st.importRegistry[f].val
       IN IF ~MapHas(st.nodes, importingFile) \/ b > Len(imports)
          THEN CliImportLinks(st, f + 1, 1)
          ELSE LET targetFile == imports[b].val.sourceFile
                   existingImport == \E l \in DOMAIN Links(st) :
                                       /\ Links(st)[l].source = importingFile
                                       /\ Links(st)[l].target = targetFile
                                       /\ Links(st)[l].type = "import"
               IN CliImportLinks(IF MapHas(st.nodes, targetFile) /\ ~existingImport
                                 THEN PushLink(st, [source |-> importingFile, target |-> targetFile,
                                                    value |-> 3, type |-> "import"])
                                 ELSE st,
                                 f, b + 1)

RECURSIVE CliMatchLoop(_, _, _, _, _, _)
\* the while loop of App.tsx 293-312 over the matches ms from index i on
CliMatchLoop(st, ms, i, text, relPath, targetNode) ==
  IF i > Len(ms) THEN st
  ELSE LET lineNum == LineOfChar(text, ms[i])
           InFile(n) == n.file = relPath
           NotAfter(n) == n.line <= lineNum
           found == SelectSeq(SortDesc(SelectSeq(NodeValues(st), InFile), 1, <<>>), NotAfter)
           sourceId == found[1].id
           next == IF Len(found) > 0 /\ sourceId # targetNode.id
                   THEN [PushLink(st, [source |-> sourceId, target |-> targetNode.id,
                                       value |-> 1, type |-> "call"])
                           EXCEPT !.objs[MapGet(st.nodes, targetNode.id)].size = @ + 4]
                   ELSE st
       IN CliMatchLoop(next, ms, i + 1, text, relPath, targetNode)

RECURSIVE CliTargetLoop(_, _, _, _, _)
\* the loop of App.tsx 272-313 over nodeArray (references) from index i on
CliTargetLoop(st, nodeArray, i, content, relPath) ==
  IF i > Len(nodeArray) THEN st
  ELSE LET targetNode == st.objs[nodeArray[i]]
           fileImports == IF MapHas(st.importRegistry, relPath)
                          THEN MapGet(st.importRegistry, relPath) ELSE <<>>
           binds == {b \in DOMAIN fileImports :
                       /\ fileImports[b].val.sourceFile = targetNode.file
                       /\ fileImports[b].val.originalName \in {targetNode.name, strStar}}
           isVisible == targetNode.file = relPath \/ binds # {}
           callName == IF targetNode.file = relPath THEN targetNode.name
                       ELSE IF binds # {} THEN fileImports[Min(binds)].key
                       ELSE targetNode.name
           text == Concat(content)
       IN IF ~isVisible /\ getLang(relPath) # "python"
          THEN CliTargetLoop(st, nodeArray, i + 1, content, relPath)
          ELSE CliTargetLoop(CliMatchLoop(st, ScanCalls(text, 1, callName), 1, text, relPath, targetNode),
                             nodeArray, i + 1, content, relPath)

RECURSIVE CliCallLoop(_, _, _)
\* the loop of App.tsx 267-314 over the entries of fileRegistry from index i on
CliCallLoop(st, fileRegistry, i) ==
  IF i > Len(fileRegistry) THEN st
  ELSE CliCallLoop(CliTargetLoop(st, MapValues(st.nodes), 1,
                                 fileRegistry[i].content, fileRegistry[i].path),
                   fileRegistry, i + 1)

(***************************************************************************)
(* The inputs: File objects [name, webkitRelativePath, text, readable] and *)
(* the argument lists analyzeFiles is called with.  readable is FALSE for  *)
(* a file whose text() promise rejects.  The paths are those the caller    *)
(* hands over (App.tsx 51-55): they end in a supported extension and hold  *)
(* no ':'.                                                                 *)
(***************************************************************************)
idRun == <<"r","u","n">>

idGo == <<"g","o">>

idHelper == <<"h","e","l","p","e","r">>

idOther == <<"o","t","h","e","r">>

idH == <<"h">>

idDollarH == <<"$","h">>

idNs == <<"n","s">>

idFoo == <<"F","o","o">>

idBar == <<"b","a","r">>

idBaz == <<"b","a","z">>

idNumber == <<"n","u","m","b","e","r">>

idMain == <<"m","a","i","n">>

LP == <<"(">>

RP == <<")">>

LB == <<"{">>

RB == <<"}">>

COMMA == <<",">>

EQ == <<"=">>

GT == <<">">>

STAR == <<"*">>

SEMI == <<";">>

DOT == <<".">>

litDotB == <<"'",".","/","b","'">>

litReact == <<"'","r","e","a","c","t","'">>

litUpLibB == <<"'",".",".","/","l","i","b","/","b","'">>

pathA == <<"a",".","t","s">>

pathB == <<"b",".","t","s">>

pathC == <<"c",".","t","s">>

pathD == <<"d",".","t","s">>

pathE == <<"e",".","t","s">>

pathU == <<"u",".","t","s">>

rawSrcA == <<"p","r","o","j","/","s","r","c","/",".","/","a",".","t","s">>

rawLibB == <<"p","r","o","j","\\","l","i","b","\\","b",".","t","s">>

idIf == <<"i","f">>

idX == <<"x">>

idPass == <<"p","a","s","s">>

idInterfaceX == <<"i","n","t","e","r","f","a","c","e","X">>

COLON == <<":">>

litB == <<"'","b","'">>

pathF == <<"f",".","t","s">>

pathK == <<"k",".","t","s">>

pathH == <<"h",".","t","s">>

pathT == <<"t",".","t","s">>

pathN == <<"n",".","t","s">>

pathP == <<"p",".","p","y">>

pathQ == <<"q",".","p","y">>

pathX == <<"x",".","r","s">>

pathY == <<"y",".","r","s">>

nameIndex == <<"i","n","d","e","x",".","t","s">>

rawBIndex == <<"b","/","i","n","d","e","x",".","t","s">>

\* import { helper as h } from './b'
\* import { other } from './b'
\* function run() { h(); h(); other() }
\* function go() { helper() }
textA ==
  << kwImport, SP, LB, SP, idHelper, SP, kwAs, SP, idH, SP, RB, SP, kwFrom, SP, litDotB, NL,
     kwImport, SP, LB, SP, idOther, SP, RB, SP, kwFrom, SP, litDotB, NL,
     kwFunction, SP, idRun, LP, RP, SP, LB, SP, idH, LP, RP, SEMI, SP, idH, LP, RP, SEMI, SP,
     idOther, LP, RP, SP, RB, NL,
     kwFunction, SP, idGo, LP, RP, SP, LB, SP, idHelper, LP, RP, SP, RB >>

\* export function helper() { other() }
\* export const other = () => 1
textB ==
  << kwExport, SP, kwFunction, SP, idHelper, LP, RP, SP, LB, SP, idOther, LP, RP, SP, RB, NL,
     kwExport, SP, kwConst, SP, idOther, SP, EQ, SP, LP, RP, SP, EQ, GT, SP, <<"1">> >>

\* class Foo {
\*   bar() { baz() }
\*   bar() { }
\* }
\* function baz() { baz(); Foo() }
\* interface Foo { }
\* type Foo = number
\* function Foo() { }
textC ==
  << kwClass, SP, idFoo, SP, LB, NL,
     SP, idBar, LP, RP, SP, LB, SP, idBaz, LP, RP, SP, RB, NL,
     SP, idBar, LP, RP, SP, LB, SP, RB, NL,
     RB, NL,
     kwFunction, SP, idBaz, LP, RP, SP, LB, SP, idBaz, LP, RP, SEMI, SP, idFoo, LP, RP, SP, RB, NL,
     kwInterface, SP, idFoo, SP, LB, SP, RB, NL,
     kwType, SP, idFoo, SP, EQ, SP, idNumber, NL,
     kwFunction, SP, idFoo, LP, RP, SP, LB, SP, RB >>

\* import * as ns from './b'
\* import { helper as h } from './b'
\* function run() { h() }
textD ==
  << kwImport, SP, STAR, SP, kwAs, SP, idNs, SP, kwFrom, SP, litDotB, NL,
     kwImport, SP, LB, SP, idHelper, SP, kwAs, SP, idH, SP, RB, SP, kwFrom, SP, litDotB, NL,
     kwFunction, SP, idRun, LP, RP, SP, LB, SP, idH, LP, RP, SP, RB >>

\* import { helper as $h } from './b'
\* function run() { $h() }
textE ==
  << kwImport, SP, LB, SP, idHelper, SP, kwAs, SP, idDollarH, SP, RB, SP, kwFrom, SP, litDotB, NL,
     kwFunction, SP, idRun, LP, RP, SP, LB, SP, idDollarH, LP, RP, SP, RB >>

\* import { helper } from '../lib/b'
\* import main from 'react'
\* const main = async (x) => helper(x)
textSrcA ==
  << kwImport, SP, LB, SP, idHelper, SP, RB, SP, kwFrom, SP, litUpLibB, NL,
     kwImport, SP, idMain, SP, kwFrom, SP, litReact, NL,
     kwConst, SP, idMain, SP, EQ, SP, kwAsync, SP, LP, <<"x">>, RP, SP, EQ, GT, SP,
     idHelper, LP, <<"x">>, RP >>

\* class Foo { bar() { baz(); } } function baz() {}
textF ==
  << kwClass, SP, idFoo, SP, LB, SP, idBar, LP, RP, SP, LB, SP, idBaz, LP, RP, SEMI, SP, RB, SP, RB,
     SP, kwFunction, SP, idBaz, LP, RP, SP, LB, RB >>

\* class Foo {
\*  bar() { if (x) { baz() } }
\* }
\* function baz() { }
textK ==
  << kwClass, SP, idFoo, SP, LB, NL,
     SP, idBar, LP, RP, SP, LB, SP, idIf, SP, LP, idX, RP, SP, LB, SP, idBaz, LP, RP, SP, RB, SP, RB, NL,
     RB, NL,
     kwFunction, SP, idBaz, LP, RP, SP, LB, SP, RB >>

\* class Foo {
\*  bar() { baz() }
\* function baz() { }
textH ==
  << kwClass, SP, idFoo, SP, LB, NL,
     SP, idBar, LP, RP, SP, LB, SP, idBaz, LP, RP, SP, RB, NL,
     kwFunction, SP, idBaz, LP, RP, SP, LB, SP, RB >>

\* type interfaceX = number
\* interface Bar { }
\* type Baz = number
\* interface Baz { }
textT ==
  << kwType, SP, idInterfaceX, SP, EQ, SP, idNumber, NL,
     kwInterface, SP, idBar, SP, LB, SP, RB, NL,
     kwType, SP, idBaz, SP, EQ, SP, idNumber, NL,
     kwInterface, SP, idBaz, SP, LB, SP, RB >>

\* import { helper } from 'b'
\* function run() { helper() }
textN ==
  << kwImport, SP, LB, SP, idHelper, SP, RB, SP, kwFrom, SP, litB, NL,
     kwFunction, SP, idRun, LP, RP, SP, LB, SP, idHelper, LP, RP, SP, RB >>

\* def helper():
\*   pass
textP == << kwDef, SP, idHelper, LP, RP, COLON, NL, SP, SP, idPass >>

\* def run():
\*   helper()
textQ == << kwDef, SP, idRun, LP, RP, COLON, NL, SP, SP, idHelper, LP, RP >>

\* fn helper() { }
textX == << kwFn, SP, idHelper, LP, RP, SP, LB, SP, RB >>

\* fn run() { helper() }
textY == << kwFn, SP, idRun, LP, RP, SP, LB, SP, idHelper, LP, RP, SP, RB >>

File(name, rel, text, readable) ==
  [name |-> name, webkitRelativePath |-> rel, text |-> text, readable |-> readable]

fileA == File(pathA, <<>>, textA, TRUE)

fileB == File(pathB, <<>>, textB, TRUE)

fileC == File(pathC, <<>>, textC, TRUE)

fileD == File(pathD, <<>>, textD, TRUE)

fileE == File(pathE, <<>>, textE, TRUE)

fileU == File(pathU, <<>>, textB, FALSE)

fileSrcA == File(pathA, rawSrcA, textSrcA, TRUE)

fileLibB == File(pathB, rawLibB, textB, TRUE)

fileF == File(pathF, <<>>, textF, TRUE)

fileK == File(pathK, <<>>, textK, TRUE)

fileH == File(pathH, <<>>, textH, TRUE)

fileT == File(pathT, <<>>, textT, TRUE)

fileN == File(pathN, <<>>, textN, TRUE)

fileP == File(pathP, <<>>, textP, TRUE)

fileQ == File(pathQ, <<>>, textQ, TRUE)

fileX == File(pathX, <<>>, textX, TRUE)

fileY == File(pathY, <<>>, textY, TRUE)

fileBIndex == File(nameIndex, rawBIndex, textB, TRUE)

\* the path analyzeFiles gives an input file (parser.ts 67)
PathOf(file) ==
  normalizePath(IF file.webkitRelativePath # <<>> THEN file.webkitRelativePath ELSE file.name)

Call(files, mainLanguage) == [files |-> files, mainLanguage |-> mainLanguage]

\* the argument lists of the invocations
Inputs ==
  { Call(<<fileA, fileB>>, "typescript"),
    Call(<<fileB, fileA>>, "typescript"),
    Call(<<fileC>>, "typescript"),
    Call(<<fileD, fileB>>, "typescript"),
    Call(<<fileE, fileB>>, "typescript"),
    Call(<<fileSrcA, fileLibB>>, "typescript"),
    Call(<<fileA, fileA>>, "typescript"),
    Call(<<fileA, fileU, fileB>>, "typescript"),
    Call(<<fileF>>, "typescript"),
    Call(<<fileK>>, "typescript"),
    Call(<<fileH>>, "typescript"),
    Call(<<fileT>>, "typescript"),
    Call(<<fileN, fileB>>, "typescript"),
    Call(<<fileP, fileQ>>, "python"),
    Call(<<fileX, fileY>>, "rust"),
    Call(<<fileA, fileBIndex, fileB>>, "typescript"),
    Call(<<fileA, fileBIndex>>, "typescript"),
    Call(<<>>, "typescript") }

NoCall == Call(<<>>, "")

(***************************************************************************)
(* The projects analyzeProject is run on: the files glob finds under the   *)
(* root (App.tsx 119-123), as [path, content] with the path relative to    *)
(* the root (App.tsx 151), in the order glob yields them.                  *)
(***************************************************************************)
idVoid == <<"v","o","i","d">>

idMTs == <<"m","_","t","s">>

pathJ == <<"j",".","j","a","v","a">>

pathG == <<"g",".","g","o">>

pathM == <<"m",".","t","s">>

\* public void run() { helper() }
\* static helper() { }
textJ ==
  << kwPublic, SP, idVoid, SP, idRun, LP, RP, SP, LB, SP, idHelper, LP, RP, SP, RB, NL,
     kwStatic, SP, idHelper, LP, RP, SP, LB, SP, RB >>

\* func (x x) run() { helper() }
\* func helper() { }
textG ==
  << kwFunc, SP, LP, idX, SP, idX, RP, SP, idRun, LP, RP, SP, LB, SP, idHelper, LP, RP, SP, RB, NL,
     kwFunc, SP, idHelper, LP, RP, SP, LB, SP, RB >>

\* function run() { m_ts() }
textM == << kwFunction, SP, idRun, LP, RP, SP, LB, SP, idMTs, LP, RP, SP, RB >>

OnDisk(path, content) == [path |-> path, content |-> content]

Projects ==
  { << OnDisk(pathA, textA), OnDisk(pathB, textB) >>,
    << OnDisk(pathB, textB), OnDisk(pathA, textA) >>,
    << OnDisk(pathA, textA), OnDisk(rawBIndex, textB) >>,
    << OnDisk(pathC, textC) >>,
    << OnDisk(pathD, textD), OnDisk(pathB, textB) >>,
    << OnDisk(pathE, textE), OnDisk(pathB, textB) >>,
    << OnDisk(pathF, textF) >>,
    << OnDisk(pathN, textN), OnDisk(pathB, textB) >>,
    << OnDisk(pathP, textP), OnDisk(pathQ, textQ) >>,
    << OnDisk(pathX, textX), OnDisk(pathY, textY) >>,
    << OnDisk(pathJ, textJ) >>,
    << OnDisk(pathG, textG) >>,
    << OnDisk(pathM, textM) >>,
    << >> }

(***************************************************************************)
(* Actions                                                                 *)
(***************************************************************************)
Init ==
  /\ nodes = <<>>
  /\ links = 1
  /\ folderColors = <<>>
  /\ importRegistry = <<>>
  /\ classMethods = <<>>
  /\ objs = <<>>
  /\ arrs = << <<>> >>
  /\ pc = [r \in Runs |-> "idle"]
  /\ args = [r \in Runs |-> NoCall]
  /\ pos = [r \in Runs |-> 0]
  /\ fileContents = [r \in Runs |-> <<>>]
  /\ graph = [r \in Runs |-> NoGraph]
  /\ returned = [r \in Runs |-> NoValue]
  /\ running = 0

InFlight(r) == pc[r] \notin {"idle", "returned", "rejected"}

\* parser.ts 55-63: the call, up to the first await; with no file there is no
\* await and the call runs on
Start(r, input) ==
  /\ pc[r] = "idle"
  /\ \A q \in Runs : q < r => pc[q] # "idle"
  /\ running = 0
  /\ Becomes(Cleared(This))
  /\ args' = [args EXCEPT ![r] = input]
  /\ fileContents' = [fileContents EXCEPT ![r] = <<>>]
  /\ IF Len(input.files) = 0
     THEN /\ pc' = [pc EXCEPT ![r] = "fileNodes"]
          /\ pos' = pos
          /\ running' = r
     ELSE /\ pc' = [pc EXCEPT ![r] = "text"]
          /\ pos' = [pos EXCEPT ![r] = 1]
          /\ running' = 0
  /\ UNCHANGED << graph, returned >>

\* a call made when no other invocation is in flight
CallAlone(r) ==
  /\ \A q \in Runs : ~InFlight(q)
  /\ \E input \in Inputs : Start(r, input)

\* a call made while another invocation is suspended (App.tsx 57, Sidebar.tsx 31-35)
CallOverlapping(r) ==
  /\ \E q \in Runs : InFlight(q)
  /\ \E input \in Inputs : Start(r, input)

\* parser.ts 64-70: file.text() has resolved; the entry is pushed and the loop
\* goes on to the next await, or leaves the loop
ResolveText(r) ==
  /\ pc[r] = "text"
  /\ running = 0
  /\ LET file == args[r].files[pos[r]]
         entry == [name |-> file.name,
                   path |-> PathOf(file),
                   content |-> file.text,
                   lang |-> detectLanguage(file.name, args[r].mainLanguage)]
     IN /\ file.readable
        /\ fileContents' = [fileContents EXCEPT ![r] = Append(@, entry)]
        /\ IF pos[r] < Len(args[r].files)
           THEN /\ pos' = [pos EXCEPT ![r] = @ + 1]
                /\ UNCHANGED << pc, running >>
           ELSE /\ pos' = [pos EXCEPT ![r] = 1]
                /\ pc' = [pc EXCEPT ![r] = "fileNodes"]
                /\ running' = r
  /\ UNCHANGED << nodes, links, folderColors, importRegistry, classMethods, objs, arrs,
                  args, graph, returned >>

\* parser.ts 68: file.text() has rejected; the await throws and nothing catches it
RejectText(r) ==
  /\ pc[r] = "text"
  /\ running = 0
  /\ ~args[r].files[pos[r]].readable
  /\ pc' = [pc EXCEPT ![r] = "rejected"]
  /\ UNCHANGED << nodes, links, folderColors, importRegistry, classMethods, objs, arrs,
                  args, pos, fileContents, graph, returned, running >>

RECURSIVE FileNodeLoop(_, _, _)
\* the loop of parser.ts 73-79 over the entries from index i on
FileNodeLoop(st, fcs, i) ==
  IF i > Len(fcs) THEN st
  ELSE LET f == fcs[i]
           folderColor == getFolderColor(st.folderColors, f.path)
           s0 == [st EXCEPT !.folderColors = getFolderColorMap(@, f.path)]
           node == [id |-> f.path, name |-> f.name, file |-> f.path, line |-> 0, size |-> 150,
                    color |-> folderColor, language |-> "system", linesOfCode |-> 0,
                    type |-> "file", isType |-> FALSE]
       IN FileNodeLoop(SetNode(s0, f.path, node), fcs, i + 1)

\* parser.ts 73-79
FileNodes(r) ==
  /\ pc[r] = "fileNodes"
  /\ running = r
  /\ Becomes(FileNodeLoop(This, fileContents[r], 1))
  /\ pc' = [pc EXCEPT ![r] = Enter(PhaseAfter("fileNodes"), Len(fileContents[r]))]
  /\ pos' = [pos EXCEPT ![r] = 1]
  /\ UNCHANGED << args, fileContents, graph, returned, running >>

\* one iteration of a loop over fileContents: the loop index moves on, or the
\* next pass begins
Step(r, phase) ==
  /\ pc' = [pc EXCEPT ![r] = Advance(phase, pos[r], Len(fileContents[r]))]
  /\ pos' = [pos EXCEPT ![r] = IF pos[r] < Len(fileContents[r]) THEN @ + 1 ELSE 1]
  /\ UNCHANGED << args, fileContents, graph, returned, running >>

\* one iteration of parser.ts 81-83
ExtractEntities(r) ==
  /\ pc[r] = "entities"
  /\ running = r
  /\ LET f == fileContents[r][pos[r]]
     IN Becomes(extractEntities(This, f.content, f.path, f.lang))
  /\ Step(r, "entities")

\* one iteration of parser.ts 85-87
ExtractImports(r) ==
  /\ pc[r] = "imports"
  /\ running = r
  /\ LET f == fileContents[r][pos[r]]
     IN Becomes(extractImports(This, f.content, f.path, f.lang))
  /\ Step(r, "imports")

\* parser.ts 89
CreateFileImportLinks(r) ==
  /\ pc[r] = "importLinks"
  /\ running = r
  /\ Becomes(createFileImportLinks(This))
  /\ pc' = [pc EXCEPT ![r] = Enter(PhaseAfter("importLinks"), Len(fileContents[r]))]
  /\ pos' = [pos EXCEPT ![r] = 1]
  /\ UNCHANGED << args, fileContents, graph, returned, running >>

\* one iteration of parser.ts 91-93
ExtractCalls(r) ==
  /\ pc[r] = "calls"
  /\ running = r
  /\ LET f == fileContents[r][pos[r]]
     IN Becomes(extractCalls(This, f.content, f.path, f.lang))
  /\ Step(r, "calls")

\* parser.ts 95-109: the containment links, and the return
Return(r) ==
  /\ pc[r] = "structure"
  /\ running = r
  /\ LET st == StructureLoop(This, MapValues(nodes), 1)
         g == [nodes |-> MapValues(st.nodes), links |-> st.links]
     IN /\ Becomes(st)
        /\ graph' = [graph EXCEPT ![r] = g]
        /\ returned' = [returned EXCEPT ![r] = Deref(st, g)]
  /\ pc' = [pc EXCEPT ![r] = "returned"]
  /\ running' = 0
  /\ UNCHANGED << args, pos, fileContents >>

\* one invocation after the other
Next ==
  \E r \in Runs :
    \/ CallAlone(r)
    \/ ResolveText(r)
    \/ RejectText(r)
    \/ FileNodes(r)
    \/ ExtractEntities(r)
    \/ ExtractImports(r)
    \/ CreateFileImportLinks(r)
    \/ ExtractCalls(r)
    \/ Return(r)

Spec == Init /\ [][Next]_vars

\* invocations that may overlap
NextOverlap ==
  \E r \in Runs :
    \/ CallAlone(r)
    \/ CallOverlapping(r)
    \/ ResolveText(r)
    \/ RejectText(r)
    \/ FileNodes(r)
    \/ ExtractEntities(r)
    \/ ExtractImports(r)
    \/ CreateFileImportLinks(r)
    \/ ExtractCalls(r)
    \/ Return(r)

SpecOverlap == Init /\ [][NextOverlap]_vars

(***************************************************************************)
(* analyzeProject as the command line runs it (cli.ts 29, App.tsx          *)
(* 112-317): each run r is one process with its own maps, and the function *)
(* runs from its start to its return without giving way.                   *)
(***************************************************************************)
\* App.tsx 112-127: the locals are made and glob has listed the files
CliCall(r) ==
  /\ pc[r] = "idle"
  /\ \A q \in Runs : q < r => pc[q] # "idle"
  /\ \A q \in Runs : ~InFlight(q)
  /\ \E files \in Projects :
       /\ args' = [args EXCEPT ![r] = Call(files, "typescript")]
       /\ IF Len(files) = 0
          THEN /\ pc' = [pc EXCEPT ![r] = "cliLinks"]
               /\ pos' = pos
          ELSE /\ pc' = [pc EXCEPT ![r] = "cliScan"]
               /\ pos' = [pos EXCEPT ![r] = 1]
  /\ Becomes(Cleared(This))
  /\ fileContents' = [fileContents EXCEPT ![r] = <<>>]
  /\ running' = r
  /\ UNCHANGED << graph, returned >>

\* App.tsx 149-244: one iteration of the loop over the files
CliScan(r) ==
  /\ pc[r] = "cliScan"
  /\ running = r
  /\ LET files == args[r].files
         file == files[pos[r]]
         disk == {files[i].path : i \in DOMAIN files}
     IN /\ Becomes(CliScanFile(This, disk, file.path, file.content))
        /\ fileContents' = [fileContents EXCEPT ![r] = Append(@, file)]
        /\ IF pos[r] < Len(files)
           THEN /\ pos' = [pos EXCEPT ![r] = @ + 1]
                /\ pc' = pc
           ELSE /\ pos' = [pos EXCEPT ![r] = 1]
                /\ pc' = [pc EXCEPT ![r] = "cliLinks"]
  /\ UNCHANGED << args, graph, returned, running >>

\* App.tsx 246-316: the import links, the call links and the return
CliLinks(r) ==
  /\ pc[r] = "cliLinks"
  /\ running = r
  /\ LET st == CliCallLoop(CliImportLinks(This, 1, 1), fileContents[r], 1)
         g == [nodes |-> MapValues(st.nodes), links |-> st.links]
     IN /\ Becomes(st)
        /\ graph' = [graph EXCEPT ![r] = g]
        /\ returned' = [returned EXCEPT ![r] = Deref(st, g)]
  /\ pc' = [pc EXCEPT ![r] = "returned"]
  /\ running' = 0
  /\ UNCHANGED << args, pos, fileContents >>

NextCli ==
  \E r \in Runs :
    \/ CliCall(r)
    \/ CliScan(r)
    \/ CliLinks(r)

SpecCli == Init /\ [][NextCli]_vars

(***************************************************************************)
(* The properties.  returned[r] is the graph invocation r returned, as it  *)
(* was at the return.                                                      *)
(***************************************************************************)
Returned(r) == pc[r] = "returned"

\* the paths of the readable and unreadable files invocation r was called with
OwnPaths(r) == {PathOf(args[r].files[i]) : i \in DOMAIN args[r].files}

NodeIds(g) == {g.nodes[i].id : i \in DOMAIN g.nodes}

HasNode(g, id, type) == \E i \in DOMAIN g.nodes : g.nodes[i].id = id /\ g.nodes[i].type = type

CountNodes(g, id) == Cardinality({i \in DOMAIN g.nodes : g.nodes[i].id = id})

CountLinks(g, type, source, target) ==
  Cardinality({i \in DOMAIN g.links : /\ g.links[i].type = type
                                      /\ g.links[i].source = source
                                      /\ g.links[i].target = target})

HasLink(g, type, source, target) == CountLinks(g, type, source, target) > 0

NoDuplicateLink(g) ==
  \A i, j \in DOMAIN g.links :
    ( /\ g.links[i].type = g.links[j].type
      /\ g.links[i].source = g.links[j].source
      /\ g.links[i].target = g.links[j].target ) => i = j

\* C1: in the graph analyzeFiles returns, whatever the file list, no two links
\* have the same type, source and target: a call, import or structure link is
\* there at most once per ordered pair, however many call sites or bindings
\* lead to it.
C1_LinksAreUnique == \A r \in Runs : Returned(r) => NoDuplicateLink(returned[r])

\* a.ts calls h twice in run and binds two names from './b': one call link
\* run -> helper and one import link a.ts -> b.ts are returned
C1_TwoSitesOneLink ==
  \E r \in Runs :
    /\ Returned(r)
    /\ args[r].files = <<fileA, fileB>>
    /\ Len(ScanCalls(Concat(textA), 1, idH)) = 2
    /\ Len(ImportLoop(<<>>, ScanImports(textA, 1), 1, pathA)) = 2
    /\ CountLinks(returned[r], "call", generateId(pathA, idRun), generateId(pathB, idHelper)) = 1
    /\ CountLinks(returned[r], "import", pathA, pathB) = 1

\* C2: in the graph analyzeFiles returns no two nodes have the same id; the id
\* of a node that is no file is its normalised file path, ':' and its
\* qualified name; declarations of one file with one qualified name, whichever
\* pass finds them, are one node.
C2_NodeIdsAreUnique ==
  \A r \in Runs : Returned(r) =>
    LET ns == returned[r].nodes
    IN /\ \A i, j \in DOMAIN ns : ns[i].id = ns[j].id => i = j
       /\ \A i \in DOMAIN ns : ns[i].type # "file" =>
            /\ ns[i].file \in OwnPaths(r)
            /\ ns[i].id = ns[i].file \o <<":">> \o ns[i].name
       /\ \A i, j \in DOMAIN ns :
            ( /\ ns[i].type # "file" /\ ns[j].type # "file"
              /\ ns[i].file = ns[j].file /\ ns[i].name = ns[j].name ) => i = j

\* c.ts declares the method Foo.bar twice, and Foo as a function, an interface
\* and a type: the graph has one node for each name
C2_DeclaredTwiceOneNode ==
  \E r \in Runs :
    /\ Returned(r)
    /\ args[r].files = <<fileC>>
    /\ LET ms == ScanMethods(textC, 1) IN Cardinality({i \in DOMAIN ms : ms[i].name = idBar}) = 2
    /\ LET ts == ScanTypes(textC, 1) IN Cardinality({i \in DOMAIN ts : ts[i].name = idFoo}) = 2
    /\ LET ds == ScanDecls(textC, 1, "typescript")
       IN Cardinality({i \in DOMAIN ds : ds[i].name = idFoo}) = 1
    /\ CountNodes(returned[r], generateId(pathC, idFoo \o DOT \o idBar)) = 1
    /\ CountNodes(returned[r], generateId(pathC, idFoo)) = 1

\* C3: no call link analyzeFiles returns has its source as its target: a
\* match inside the target entity itself, the match on its own declaration
\* included, makes no link.
C3_NoCallLinkToItself ==
  \A r \in Runs : Returned(r) =>
    \A i \in DOMAIN returned[r].links :
      returned[r].links[i].type = "call" => returned[r].links[i].source # returned[r].links[i].target

\* c.ts: `baz(` is matched twice on line 5, in baz's declaration and in its
\* body, and the entity enclosing line 5 is baz
C3_MatchInsideTarget ==
  \E r \in Runs :
    /\ Returned(r)
    /\ args[r].files = <<fileC>>
    /\ MapHas(nodes, generateId(pathC, idBaz))
    /\ LET t == Concat(textC)
           ms == ScanCalls(t, 1, idBaz)
       IN /\ Cardinality({i \in DOMAIN ms : LineOfChar(t, ms[i]) = 5}) = 2
          /\ EnclosingCandidates(This, pathC, 5)[1].id = generateId(pathC, idBaz)
    /\ HasNode(returned[r], generateId(pathC, idBaz), "function")

\* C4: in the graph analyzeFiles returns, every node e that is no file has a
\* structure link from e.file to e.id, and e.file is the id of a file node of
\* that graph.
C4_EveryEntityIsContained ==
  \A r \in Runs : Returned(r) =>
    \A i \in DOMAIN returned[r].nodes :
      LET e == returned[r].nodes[i]
      IN e.type # "file" =>
           /\ HasLink(returned[r], "structure", e.file, e.id)
           /\ HasNode(returned[r], e.file, "file")

\* proj/lib/b.ts, given with backslashes: helper is contained in the file node
\* of the normalised path
C4_EntityOfNormalisedFile ==
  \E r \in Runs :
    /\ Returned(r)
    /\ args[r].files = <<fileSrcA, fileLibB>>
    /\ PathOf(fileLibB) # rawLibB
    /\ HasNode(returned[r], generateId(PathOf(fileLibB), idHelper), "function")
    /\ HasNode(returned[r], PathOf(fileLibB), "file")

\* C5: two invocations on the one instance, the second called after the first
\* has returned, with the same file list, return the same graph: the same
\* node ids, the same links, the same attributes of every node; a node's
\* size starts again from its base value in the second run.
C5_SameFilesSameGraph ==
  \A r1, r2 \in Runs :
    (Returned(r1) /\ Returned(r2) /\ args[r1] = args[r2]) => returned[r1] = returned[r2]

\* a.ts and b.ts analysed twice: b.ts:other, the target of two call links, has
\* size 8 + 0.3 + 0.3 in the second graph as in the first
C5_SecondRunSameSize ==
  /\ Returned(1) /\ Returned(2)
  /\ args[1].files = <<fileA, fileB>>
  /\ args[2] = args[1]
  /\ \E i \in DOMAIN returned[2].nodes :
       /\ returned[2].nodes[i].id = generateId(pathB, idOther)
       /\ returned[2].nodes[i].size = 86
  /\ CountLinks(returned[2], "structure", pathB, generateId(pathB, idOther)) = 1

\* the entities and bindings the passes of parser.ts 81-87 find in entry f are
\* in the registries
RegistriesHold(f) ==
  /\ MapKeys(extractEntities(This, f.content, f.path, f.lang).nodes) = MapKeys(nodes)
  /\ f.lang \in {"typescript", "javascript"} =>
       /\ MapHas(importRegistry, f.path)
       /\ MapGet(importRegistry, f.path) = ImportLoop(<<>>, ScanImports(f.content, 1), 1, f.path)

\* C6: within one run, extractCalls is executed for no file until
\* extractEntities and extractImports are done for every file of the run, and
\* the entity registry and the import registry do not change during the call
\* pass: every step taken in the call pass starts with both registries
\* complete and leaves them as they are.
C6_CallsAfterRegistries ==
  [][ \A r \in Runs : pc[r] = "calls" =>
        /\ \A i \in DOMAIN fileContents[r] : RegistriesHold(fileContents[r][i])
        /\ nodes' = nodes
        /\ importRegistry' = importRegistry ]_vars

\* the call pass of <<a.ts, b.ts>> after its first file: the link run ->
\* helper rests on an entity of b.ts, the file extracted last
C6_CallPassUnderWay ==
  \E r \in Runs :
    /\ pc[r] = "calls"
    /\ pos[r] = 2
    /\ args[r].files = <<fileA, fileB>>
    /\ \E i \in DOMAIN Links(This) :
         /\ Links(This)[i].type = "call"
         /\ Links(This)[i].source = generateId(pathA, idRun)
         /\ Links(This)[i].target = generateId(pathB, idHelper)

\* C7: every invocation starts from an empty registry, also when it is called
\* while another one is suspended in `await file.text()`: the graph it returns
\* has only nodes and links of its own input files, and no two links with the
\* same type, source and target.
C7_OverlappingRunsAreIsolated ==
  \A r \in Runs : Returned(r) =>
    /\ \A i \in DOMAIN returned[r].nodes : returned[r].nodes[i].file \in OwnPaths(r)
    /\ \A i \in DOMAIN returned[r].links :
         /\ returned[r].links[i].source \in NodeIds(returned[r])
         /\ returned[r].links[i].target \in NodeIds(returned[r])
    /\ NoDuplicateLink(returned[r])

\* C8: when the text of one input file cannot be read, analyzeFiles does not
\* fail as a whole: the file is skipped, and the graph returned has the file
\* node of every other input file.
C8_UnreadableFileIsSkipped ==
  \A r \in Runs :
    /\ pc[r] # "rejected"
    /\ Returned(r) =>
         \A i \in DOMAIN args[r].files :
           args[r].files[i].readable => HasNode(returned[r], PathOf(args[r].files[i]), "file")

\* the text t has `name(` at character p, with no identifier character before it
Occurs(t, p, name) ==
  /\ p + Len(name) <= Len(t)
  /\ SubSeq(t, p, p + Len(name) - 1) = name
  /\ t[p + Len(name)] = "("
  /\ (p = 1 \/ t[p - 1] \notin IdentChar)

\* f is the entity of the file path that a line is attributed to: the one
\* declared last among those declared on or before the line
AttributedTo(g, path, line, f) ==
  /\ f.file = path /\ f.type # "file" /\ f.line <= line
  /\ \A i \in DOMAIN g.nodes :
       (g.nodes[i].file = path /\ g.nodes[i].type # "file" /\ g.nodes[i].line <= line)
         => g.nodes[i].line <= f.line

\* the function f of the file path has `name(` on a line attributed to it
CalledIn(g, t, path, name, f) ==
  \E p \in DOMAIN t : Occurs(t, p, name) /\ AttributedTo(g, path, LineOfChar(t, p), f)

\* the resolved specifier designates the file node B, by a suffix of parser.ts 336
Designates(resolved, B) ==
  B.type = "file" /\ \E e \in DOMAIN extensions : resolved \o extensions[e] = B.id

\* C9: when TypeScript file A imports {x as y} from a relative specifier that
\* designates the project file B, B declares the function x, and a function f
\* of A has `y(` on a line attributed to f, the graph returned has the call
\* link A:f -> B:x; the site is matched by the local name y, and `x(` in f
\* alone gives no call link to B:x.
C9_AliasedCallIsLinked ==
  \A r \in Runs : Returned(r) =>
    \A a \in DOMAIN fileContents[r] :
      LET g == returned[r]
          A == fileContents[r][a]
          t == Concat(A.content)
          ms == ScanImports(A.content, 1)
      IN A.lang = "typescript" =>
         \A m \in DOMAIN ms : (ms[m].kind = "named" /\ StartsWith(ms[m].path, <<".">>)) =>
           LET parts == SplitToks(ms[m].named, 1, << <<>> >>)
           IN \A k \in DOMAIN parts :
                LET x == SplitAs(parts[k]).orig
                    y == SplitAs(parts[k]).alias
                IN y # <<>> =>
                   \A nb, nf \in DOMAIN g.nodes :
                     LET B == g.nodes[nb]
                         f == g.nodes[nf]
                         X == generateId(B.id, x)
                     IN ( /\ Designates(resolveImportPath(A.path, ms[m].path), B)
                          /\ HasNode(g, X, "function")
                          /\ f.file = A.path /\ f.type = "function" )
                        => /\ CalledIn(g, t, A.path, y, f) => HasLink(g, "call", f.id, X)
                           /\ (CalledIn(g, t, A.path, x, f) /\ ~CalledIn(g, t, A.path, y, f))
                                => ~HasLink(g, "call", f.id, X)

\* invocation r analyses a.ts, whose first line is
\* import { helper as h } from './b', and b.ts
ImportsHelperAsH(r) ==
  /\ SubSeq(textA, 1, 15) = << kwImport, SP, LB, SP, idHelper, SP, kwAs, SP, idH, SP, RB, SP,
                               kwFrom, SP, litDotB >>
  /\ \E i, j \in DOMAIN fileContents[r] :
       /\ fileContents[r][i].path = pathA /\ fileContents[r][i].content = textA
       /\ fileContents[r][j].path = pathB

\* the binding of h recorded for a.ts once the import pass of r is over
BindingOfH(r, binding) ==
  (pc[r] \in {"importLinks", "calls", "structure"} /\ ImportsHelperAsH(r)) =>
    /\ MapHas(importRegistry, pathA)
    /\ MapHas(MapGet(importRegistry, pathA), idH)
    /\ MapGet(MapGet(importRegistry, pathA), idH) = binding

\* C10, as the specification states it: for a.ts with
\* import { helper as h } from './b' in a project that has b.ts, the binding
\* recorded for a.ts maps h to sourceFile 'b.ts', the path of the declaring
\* file, and originalName 'helper'.
C10_BindingNamesDeclaringFile ==
  \A r \in Runs : BindingOfH(r, [sourceFile |-> pathB, originalName |-> idHelper])

\* C10, amended: the binding recorded for a.ts maps h to sourceFile 'b', the
\* specifier joined to the directory of a.ts and normalised, with no
\* extension, and originalName 'helper'.
C10_BindingKeepsSpecifier ==
  \A r \in Runs : BindingOfH(r, [sourceFile |-> <<"b">>, originalName |-> idHelper])

\* the import pass of <<a.ts, b.ts>> is over and a.ts has a binding for h
C10_BindingRecorded ==
  \E r \in Runs :
    /\ pc[r] = "importLinks"
    /\ ImportsHelperAsH(r)
    /\ MapHas(importRegistry, pathA)
    /\ MapHas(MapGet(importRegistry, pathA), idH)

\* the brace depth left at lexeme `to` by a scan that starts at depth 1 in
\* lexeme `from`: 0 when the brace before `to` closes the one before `from`
DepthAt(c, from, to) ==
  1 + Cardinality({q \in from..(to - 1) : c[q] = LB}) - Cardinality({q \in from..(to - 1) : c[q] = RB})

\* the span of the class match cls of the text c ends at its closing brace
IsClosed(c, cls) ==
  LET e == BraceScan(c, 1, cls.end)
  IN e > cls.end /\ c[e - 1] = RB /\ DepthAt(c, cls.end, e) = 0

\* the method match ms[k] of a class span has `name(` after it, with no other
\* method match in between
MethodCalls(span, ms, k, name) ==
  \E q \in DOMAIN span :
    /\ q > ms[k].index /\ q < Len(span)
    /\ span[q] = name /\ span[q + 1] = LP
    /\ \A k2 \in DOMAIN ms : ~(ms[k2].index > ms[k].index /\ ms[k2].index <= q)

\* C11: when a file has a class with a closed body whose method m, declared
\* once, calls d(), and the top-level function d is declared after the class,
\* on the same line or on a later one, the graph returned has the entities
\* Class.m and d, the call link Class.m -> d, and no call link to d from a
\* file node or from a node of the class itself.
C11_MethodCallsLaterFunction ==
  \A r \in Runs : Returned(r) =>
    \A a \in DOMAIN fileContents[r] :
      LET g == returned[r]
          A == fileContents[r][a]
          c == A.content
          cs == ScanClasses(c, 1)
          ds == ScanDecls(c, 1, A.lang)
      IN A.lang \in {"typescript", "javascript"} =>
         \A i \in DOMAIN cs, j \in DOMAIN ds :
           LET e == BraceScan(c, 1, cs[i].end)
               span == SubSeq(c, cs[i].index, e - 1)
               ms == ScanMethods(span, 1)
               d == generateId(A.path, ds[j].name)
           IN \A k \in DOMAIN ms :
                LET m == A.path \o <<":">> \o cs[i].name \o <<".">> \o ms[k].name
                IN ( /\ IsClosed(c, cs[i])
                     /\ ds[j].index >= e
                     /\ ~IsDenied(ms[k].name)
                     /\ \A k2 \in DOMAIN ms : ms[k2].name = ms[k].name => k2 = k
                     /\ MethodCalls(span, ms, k, ds[j].name) )
                   => /\ m \in NodeIds(g) /\ d \in NodeIds(g)
                      /\ HasLink(g, "call", m, d)
                      /\ \A l \in DOMAIN g.links, n \in DOMAIN g.nodes :
                           ( /\ g.links[l].type = "call" /\ g.links[l].target = d
                             /\ g.links[l].source = g.nodes[n].id )
                           => g.nodes[n].type \notin {"file", "class"}

\* C12: no entity comes from a declaration whose captured identifier is one
\* of if, for, while, loop, match, in any pass that yields function-like
\* entities: a function or arrow declaration with such a name gives no
\* function node, and a method match with such a name gives no method node.
C12_NoEntityNamedAsKeyword ==
  \A r \in Runs : Returned(r) =>
    \A a \in DOMAIN fileContents[r] :
      LET g == returned[r]
          A == fileContents[r][a]
          c == A.content
          ds == ScanDecls(c, 1, A.lang)
          cs == IF A.lang \in {"typescript", "javascript"} THEN ScanClasses(c, 1) ELSE <<>>
      IN /\ \A j \in DOMAIN ds :
              IsDenied(ds[j].name) => ~HasNode(g, generateId(A.path, ds[j].name), "function")
         /\ \A i \in DOMAIN cs :
              LET span == SubSeq(c, cs[i].index, BraceScan(c, 1, cs[i].end) - 1)
                  ms == ScanMethods(span, 1)
              IN \A k \in DOMAIN ms :
                   IsDenied(ms[k].name) =>
                     ~HasNode(g, A.path \o <<":">> \o cs[i].name \o <<".">> \o ms[k].name, "method")

\* the file of the node of g with the given id
FileOfNode(g, id) == {g.nodes[n].file : n \in {k \in DOMAIN g.nodes : g.nodes[k].id = id}}

\* C13: an import whose specifier does not start with '.' matches nothing of
\* the project: a file all of whose imports have such specifiers is the source
\* of no import link, and no call link goes from an entity of that file to an
\* entity of another file, whatever the other files and their entities are.
C13_ExternalSpecifierMatchesNothing ==
  \A r \in Runs : Returned(r) =>
    \A a \in DOMAIN fileContents[r] :
      LET g == returned[r]
          A == fileContents[r][a]
          ms == ScanImports(A.content, 1)
      IN ( /\ A.lang \in {"typescript", "javascript"}
           /\ ms # <<>>
           /\ \A m \in DOMAIN ms : ~StartsWith(ms[m].path, <<".">>) )
         => \A l \in DOMAIN g.links :
              /\ g.links[l].type = "import" => g.links[l].source # A.path
              /\ (g.links[l].type = "call" /\ A.path \in FileOfNode(g, g.links[l].source))
                   => FileOfNode(g, g.links[l].target) = {A.path}

\* C14: in a file of a language that has no import declarations here (any
\* language but typescript and javascript), every entity of the project that
\* is no file is visible: when an entity f of the file has `name(` on a line
\* attributed to it, and name is an entity declared in another file, the
\* graph returned has the call link from f to that entity.
C14_NoImportSyntaxSeesEveryEntity ==
  \A r \in Runs : Returned(r) =>
    \A a \in DOMAIN fileContents[r] :
      LET g == returned[r]
          A == fileContents[r][a]
          t == Concat(A.content)
      IN A.lang \notin {"typescript", "javascript"} =>
         \A nf, nt \in DOMAIN g.nodes :
           LET f == g.nodes[nf]
               target == g.nodes[nt]
           IN ( /\ target.type # "file" /\ target.file # A.path
                /\ f.file = A.path /\ f.type # "file"
                /\ CalledIn(g, t, A.path, target.name, f) )
              => HasLink(g, "call", f.id, target.id)

\* f alone is the entity of the file path that a line is attributed to
OnlyAttributedTo(g, path, line, f) ==
  /\ AttributedTo(g, path, line, f)
  /\ \A i \in DOMAIN g.nodes :
       AttributedTo(g, path, line, g.nodes[i]) => g.nodes[i].id = f.id

\* C15: a call-site match at line L of file F is attributed to the entity of
\* F, no file node, with the greatest declaration line <= L, the declaration
\* line itself included.  For a target declared in F: when its name is
\* matched on a line that goes to the entity f alone, f being another entity,
\* the graph has the call link f -> target; and every call link f -> target
\* of the graph has a match of target's name on a line attributed to f, so
\* that a match with no entity declared on or before its line gives no link.
C15_CallSiteGoesToLastDeclared ==
  \A r \in Runs : Returned(r) =>
    \A a \in DOMAIN fileContents[r] :
      LET g == returned[r]
          A == fileContents[r][a]
          t == Concat(A.content)
      IN \A nf, nt \in DOMAIN g.nodes :
           LET f == g.nodes[nf]
               target == g.nodes[nt]
               sites == ScanCalls(t, 1, target.name)
           IN ( /\ target.type # "file" /\ target.file = A.path
                /\ f.type # "file" /\ f.file = A.path
                /\ f.id # target.id )
              => /\ (\E k \in DOMAIN sites : OnlyAttributedTo(g, A.path, LineOfChar(t, sites[k]), f))
                      => HasLink(g, "call", f.id, target.id)
                 /\ HasLink(g, "call", f.id, target.id)
                      => \E k \in DOMAIN sites : AttributedTo(g, A.path, LineOfChar(t, sites[k]), f)

\* b.ts is analysed: `other(` is on line 1, the declaration line of helper,
\* and the link helper -> other is returned; c.ts is analysed: `baz(` is on
\* line 2, no entity of c.ts is declared on or before line 2, and no call link
\* to baz is returned
C15_DeclarationLineAndNoEntity ==
  /\ \E r \in Runs :
       /\ Returned(r) /\ args[r].files = <<fileB, fileA>>
       /\ \E n \in DOMAIN returned[r].nodes :
            /\ returned[r].nodes[n].id = generateId(pathB, idHelper)
            /\ returned[r].nodes[n].line = 1
       /\ LineOfChar(Concat(textB), ScanCalls(Concat(textB), 1, idOther)[1]) = 1
       /\ HasLink(returned[r], "call", generateId(pathB, idHelper), generateId(pathB, idOther))
  /\ \E r \in Runs :
       /\ Returned(r) /\ args[r].files = <<fileC>>
       /\ LineOfChar(Concat(textC), ScanCalls(Concat(textC), 1, idBaz)[1]) = 2
       /\ \A n \in DOMAIN returned[r].nodes :
            returned[r].nodes[n].type # "file" => returned[r].nodes[n].line > 2
       /\ \A l \in DOMAIN returned[r].links :
            ~(returned[r].links[l].type = "call" /\ returned[r].links[l].target = generateId(pathC, idBaz))

\* C16: a graph analyzeFiles has returned, its nodes array, its links array
\* and the node objects in them, is never changed by a later invocation on
\* the same instance, whether the later invocation starts after the return or
\* was under way at the return: at every moment the returned arrays and
\* objects hold what they held at the return.
C16_ReturnedGraphIsNeverChanged ==
  \A r \in Runs : Returned(r) => Deref(This, graph[r]) = returned[r]

\* the suffixes of parser.ts 336, by index, that make the resolved source the
\* id of a file node of the registry
KnownSuffixes(resolved) ==
  {e \in DOMAIN extensions :
     \E n \in DOMAIN nodes : /\ objs[nodes[n].val].id = resolved \o extensions[e]
                             /\ objs[nodes[n].val].type = "file"}

\* the file the binding's source is linked to: the candidate of the first
\* known suffix
FirstKnown(resolved) == resolved \o extensions[Min(KnownSuffixes(resolved))]

\* the import links of the links array whose source is the importing file
ImportLinksOf(importingFile) ==
  {l \in DOMAIN Links(This) : Links(This)[l].type = "import" /\ Links(This)[l].source = importingFile}

\* C17: once createFileImportLinks has run, for every importing file that is
\* a node and every binding of it: when some suffix of the ordered list makes
\* the binding's source a known file, there is exactly one import link from
\* the importing file to the candidate of the first such suffix; and every
\* import link from the importing file goes to the first known candidate of
\* one of its bindings, so a binding gives no link to a later candidate and no
\* link when no candidate is known.
C17_FirstKnownSuffixWins ==
  \A r \in Runs : (pc[r] \in {"calls", "structure"} /\ running = r) =>
    \A f \in DOMAIN importRegistry :
      LET importingFile == importRegistry[f].key
          imports == importRegistry[f].val
      IN MapHas(nodes, importingFile) =>
         /\ \A b \in DOMAIN imports :
              KnownSuffixes(imports[b].val.sourceFile) # {} =>
                Cardinality({l \in ImportLinksOf(importingFile) :
                               Links(This)[l].target = FirstKnown(imports[b].val.sourceFile)}) = 1
         /\ \A l \in ImportLinksOf(importingFile) :
              \E b \in DOMAIN imports :
                /\ KnownSuffixes(imports[b].val.sourceFile) # {}
                /\ Links(This)[l].target = FirstKnown(imports[b].val.sourceFile)

\* <<a.ts, b/index.ts, b.ts>> is past createFileImportLinks: the source 'b' of
\* a.ts's bindings is a known file with the suffix '.ts' and with the suffix
\* '/index.ts', and the only import link of a.ts goes to b.ts
C17_TwoCandidatesOneLink ==
  \E r \in Runs :
    /\ pc[r] = "calls" /\ running = r
    /\ args[r].files = <<fileA, fileBIndex, fileB>>
    /\ MapHas(importRegistry, pathA)
    /\ \A b \in DOMAIN MapGet(importRegistry, pathA) :
         KnownSuffixes(MapGet(importRegistry, pathA)[b].val.sourceFile) = {2, 7}
    /\ Cardinality(ImportLinksOf(pathA)) = 1
    /\ \A l \in ImportLinksOf(pathA) : Links(This)[l].target = pathB

\* the brace that opens the class match cls of the text c is never closed
IsUnclosed(c, cls) == \A q \in cls.end..(Len(c) + 1) : DepthAt(c, cls.end, q) > 0

\* C18: extractClassMethods ends on every text, with no exception.  When the
\* entity pass is about to take a file, for every class match of its text the
\* brace scan stops at an index between the one after the opening brace and
\* the one after the last lexeme, never beyond: at the first index where the
\* depth is 0, or, for a class whose brace is never closed, at the end of the
\* text; and the pass of that file yields a registry, which has the nodes
\* there were and those of the file.
C18_BraceScanStopsInsideText ==
  \A r \in Runs : (pc[r] = "entities" /\ running = r) =>
    LET f == fileContents[r][pos[r]]
        c == f.content
        cs == ScanClasses(c, 1)
    IN /\ \A i \in DOMAIN cs :
            LET e == BraceScan(c, 1, cs[i].end)
            IN /\ cs[i].end <= e /\ e <= Len(c) + 1
               /\ IsUnclosed(c, cs[i]) => e = Len(c) + 1
               /\ ~IsUnclosed(c, cs[i]) =>
                    /\ DepthAt(c, cs[i].end, e) = 0
                    /\ \A q \in cs[i].end..(e - 1) : DepthAt(c, cs[i].end, q) > 0
       /\ Len(extractEntities(This, c, f.path, f.lang).nodes) >= Len(nodes)

\* h.ts, whose class Foo is never closed, has been analysed: the span of Foo
\* ran to the end of the text, so that `baz() {` of the function after the
\* class gave the method Foo.baz, and the graph was returned
C18_UnclosedClassRunsToEnd ==
  \E r \in Runs :
    /\ Returned(r) /\ args[r].files = <<fileH>>
    /\ \E i \in DOMAIN ScanClasses(textH, 1) :
         /\ IsUnclosed(textH, ScanClasses(textH, 1)[i])
         /\ BraceScan(textH, 1, ScanClasses(textH, 1)[i].end) = Len(textH) + 1
    /\ HasNode(returned[r], pathH \o <<":">> \o idFoo \o <<".">> \o idBar, "method")
    /\ HasNode(returned[r], pathH \o <<":">> \o idFoo \o <<".">> \o idBaz, "method")

\* the entity pass of invocation r is over and its registries are in place
EntitiesDone(r) == running = r /\ pc[r] \in {"imports", "importLinks", "calls", "structure"}

DeclKeyword(c, i) ==
  LET k == Ws1(c, i + 1)
      kw == IF EndsWith(Tok(c, i), kwExport) /\ k > 0 /\ TypeCoreAt(c, k, TRUE).ok
            THEN Tok(c, k) ELSE Tok(c, i)
  IN IF EndsWith(kw, kwInterface) THEN "interface" ELSE "type"

\* C20: in a TypeScript file every declaration `interface N` or `type N`
\* gives one entity N, whose type is 'interface' exactly when the keyword of
\* the declaration is `interface`, and 'type' otherwise, whatever N is; of
\* several declarations of N the first one gives the type, the colour and the
\* line, and when N is a function of the file already, the function node is
\* left as it is.
C20_TypeEntityTaggedByKeyword ==
  \A r \in Runs : Returned(r) =>
    \A a \in DOMAIN fileContents[r] :
      LET g == returned[r]
          A == fileContents[r][a]
          c == A.content
          ts == ScanTypes(c, 1)
          ds == ScanDecls(c, 1, A.lang)
      IN A.lang = "typescript" =>
         \A j \in DOMAIN ts :
           LET first == ts[Min({j2 \in DOMAIN ts : ts[j2].name = ts[j].name})]
               kind == DeclKeyword(c, first.index)
               isFunction == \E d \in DOMAIN ds : ds[d].name = ts[j].name /\ ~IsDenied(ds[d].name)
           IN /\ CountNodes(g, A.path \o <<":">> \o ts[j].name) = 1
              /\ \A n \in DOMAIN g.nodes :
                   g.nodes[n].id = A.path \o <<":">> \o ts[j].name =>
                     IF isFunction THEN g.nodes[n].type = "function"
                     ELSE /\ g.nodes[n].type = kind
                          /\ g.nodes[n].color = IF kind = "interface" THEN "#00bfff" ELSE "#ff69b4"
                          /\ g.nodes[n].line = LineOf(c, first.index)

\* the size, in tenths, a node of the given kind is made with (parser.ts 76,
\* 143, 177, 221)
BaseSize(type) == IF type = "file" THEN 150 ELSE IF type \in {"function", "method"} THEN 80 ELSE 60

\* the size of every node of g is the base of its kind and three tenths for
\* each call link of g whose target it is
SizesCountCalls(g) ==
  \A n \in DOMAIN g.nodes :
    g.nodes[n].size = BaseSize(g.nodes[n].type)
                        + 3 * Cardinality({l \in DOMAIN g.links : /\ g.links[l].type = "call"
                                                                   /\ g.links[l].target = g.nodes[n].id})

\* C21: every node of the graph analyzeFiles returns has the size of its
\* kind (file 15, function 8, method 8, type and interface 6) and 0.3 more
\* for each call link of the graph whose target it is; no step of a run
\* makes the size of a node of the registry smaller, and a file node keeps
\* its size 15.
C21_SizeCountsInboundCalls ==
  [][ /\ \A r \in Runs : Returned(r)' => SizesCountCalls(returned[r])'
      /\ \A r \in Runs : (running = r /\ running' \in {r, 0}) =>
           \A i \in DOMAIN nodes, j \in DOMAIN nodes' :
             nodes[i].key = nodes'[j].key =>
               /\ objs'[nodes'[j].val].size >= objs[nodes[i].val].size
               /\ objs'[nodes'[j].val].type = "file" => objs'[nodes'[j].val].size = 150 ]_vars

\* <<a.ts, b.ts>> is returned: other of b.ts is the target of two call links,
\* from run and from helper, and has size 8.6; run is the target of none and
\* has size 8
C21_TwoCallersTwoIncrements ==
  \E r \in Runs :
    /\ Returned(r) /\ args[r].files = <<fileA, fileB>>
    /\ HasLink(returned[r], "call", generateId(pathA, idRun), generateId(pathB, idOther))
    /\ HasLink(returned[r], "call", generateId(pathB, idHelper), generateId(pathB, idOther))
    /\ \E n, m \in DOMAIN returned[r].nodes :
         /\ returned[r].nodes[n].id = generateId(pathB, idOther)
         /\ returned[r].nodes[n].size = 86
         /\ returned[r].nodes[m].id = generateId(pathA, idRun)
         /\ returned[r].nodes[m].size = 80

\* the place of the pass that registers a node of the given kind
PassRank(type) == IF type = "function" THEN 1 ELSE IF type = "method" THEN 2 ELSE 3

\* the entities of the file path, in the order of the registry
EntitiesOf(path) ==
  LET OfFile(n) == n.file = path /\ n.type # "file"
  IN SelectSeq(NodeValues(This), OfFile)

\* C24: when several entities of a file share the greatest declaration line
\* that is not after the line of a call site, findEnclosingEntity returns the
\* one that was registered first.  In the call pass, for every file and every
\* line: the entity returned is declared on or before the line, no entity of
\* the file is declared between it and the line, and no entity of the same
\* line precedes it in the registry; and the registry has the entities of a
\* file in the order functions, by their first declaration in the text, class
\* methods, types.
C24_TieGoesToFirstRegistered ==
  \A r \in Runs : (pc[r] = "calls" /\ running = r) =>
    \A a \in DOMAIN fileContents[r] :
      LET A == fileContents[r][a]
          es == EntitiesOf(A.path)
          ds == ScanDecls(A.content, 1, A.lang)
          FirstDecl(name) == Min({d \in DOMAIN ds : ds[d].name = name})
      IN /\ \A i, j \in DOMAIN es : i < j =>
              /\ PassRank(es[i].type) <= PassRank(es[j].type)
              /\ (es[i].type = "function" /\ es[j].type = "function")
                   => FirstDecl(es[i].name) < FirstDecl(es[j].name)
         /\ \A line \in 1..(LineOf(A.content, Len(A.content) + 1) + 1) :
              LET cands == EnclosingCandidates(This, A.path, line)
                  first == Min({i \in DOMAIN es : /\ es[i].line <= line
                                                   /\ \A j \in DOMAIN es :
                                                        es[j].line <= line => es[j].line <= es[i].line})
              IN IF \E i \in DOMAIN es : es[i].line <= line
                 THEN cands # <<>> /\ cands[1] = es[first]
                 ELSE cands = <<>>

\* the call pass of f.ts: the function baz and the method Foo.bar are both
\* declared on line 1, baz is registered first, and baz is the entity a call
\* site of line 1 is attributed to
C24_TwoEntitiesOnOneLine ==
  \E r \in Runs :
    /\ pc[r] = "calls" /\ running = r /\ args[r].files = <<fileF>>
    /\ Len(EntitiesOf(pathF)) = 2
    /\ EntitiesOf(pathF)[1].id = generateId(pathF, idBaz)
    /\ EntitiesOf(pathF)[2].id = pathF \o <<":">> \o idFoo \o <<".">> \o idBar
    /\ EntitiesOf(pathF)[1].line = 1 /\ EntitiesOf(pathF)[2].line = 1
    /\ EnclosingCandidates(This, pathF, 1)[1].id = generateId(pathF, idBaz)

\* the nodes of g with the given id are all of a kind among types
KindOf(g, id, types) ==
  /\ id \in NodeIds(g)
  /\ \A n \in DOMAIN g.nodes : g.nodes[n].id = id => g.nodes[n].type \in types

Entities == {"function", "method", "interface", "type"}

\* C25: in the graph analyzeFiles returns, the source and the target of every
\* link are ids of nodes of the graph; a structure link goes from a file node
\* to a node that is no file and is declared in that file, an import link
\* from a file node to a file node, and a call link from a node that is no
\* file to a node that is no file.
C25_LinkEndsHaveTheirKinds ==
  \A r \in Runs : Returned(r) =>
    LET g == returned[r]
    IN \A l \in DOMAIN g.links :
         LET link == g.links[l]
         IN /\ link.type \in {"structure", "import", "call"}
            /\ link.type = "structure" =>
                 /\ KindOf(g, link.source, {"file"})
                 /\ KindOf(g, link.target, Entities)
                 /\ FileOfNode(g, link.target) = {link.source}
            /\ link.type = "import" =>
                 KindOf(g, link.source, {"file"}) /\ KindOf(g, link.target, {"file"})
            /\ link.type = "call" =>
                 KindOf(g, link.source, Entities) /\ KindOf(g, link.target, Entities)

\* the graph of <<a.ts, b.ts>> has links of the three kinds; the graph of
\* c.ts has a call site on line 2, before every declaration line of the file,
\* and no call link from the file node
C25_ThreeKindsOfLink ==
  /\ \E r \in Runs :
       /\ Returned(r) /\ args[r].files = <<fileA, fileB>>
       /\ HasLink(returned[r], "import", pathA, pathB)
       /\ HasLink(returned[r], "structure", pathA, generateId(pathA, idRun))
       /\ HasLink(returned[r], "call", generateId(pathA, idRun), generateId(pathB, idHelper))
  /\ \E r \in Runs :
       /\ Returned(r) /\ args[r].files = <<fileC>>
       /\ LineOfChar(Concat(textC), ScanCalls(Concat(textC), 1, idBaz)[1]) = 2
       /\ \A n \in DOMAIN returned[r].nodes :
            returned[r].nodes[n].type # "file" => returned[r].nodes[n].line > 2
       /\ \A l \in DOMAIN returned[r].links :
            returned[r].links[l].type = "call" => returned[r].links[l].source # pathC

\* C26: for a TypeScript or JavaScript file F, every call link of the graph
\* analyzeFiles returns that goes from an entity of F to an entity of another
\* file G comes with the import link F -> G of the same graph.
C26_CrossFileCallFollowsImport ==
  \A r \in Runs : Returned(r) =>
    LET g == returned[r]
    IN \A a \in DOMAIN fileContents[r] :
         LET F == fileContents[r][a]
         IN F.lang \in {"typescript", "javascript"} =>
            \A l \in DOMAIN g.links, n, m \in DOMAIN g.nodes :
              ( /\ g.links[l].type = "call"
                /\ g.nodes[n].id = g.links[l].source /\ g.nodes[n].file = F.path
                /\ g.nodes[m].id = g.links[l].target /\ g.nodes[m].file # F.path )
              => HasLink(g, "import", F.path, g.nodes[m].file)

\* C22: in the graph analyzeProject returns, no two links share the same
\* (type, source, target): several call sites of one visible target in one
\* caller yield a single call link.
C22_CliLinksAreUnique == \A r \in Runs : Returned(r) => NoDuplicateLink(returned[r])

\* C23: every call link analyzeProject returns has a non-file entity as source
\* and a non-file entity as target: a call site before every declaration of
\* its file is attributed to nothing, and no file node is a call target.
C23_CliCallsJoinEntities ==
  \A r \in Runs : Returned(r) =>
    \A l \in DOMAIN returned[r].links :
      returned[r].links[l].type = "call" =>
        /\ ~HasNode(returned[r], returned[r].links[l].source, "file")
        /\ ~HasNode(returned[r], returned[r].links[l].target, "file")

====
